---- MODULE Spec2Model ----
(***************************************************************************)
(* GeoDescribe: the persistent store (idb-keyval wrappers), the            *)
(* observation-capture form with its autosave, the photo list, the photo   *)
(* downscaler, the on-device colour summarizer and the pXRF statistics.    *)
(*                                                                         *)
(* Strings whose characters matter (identifiers, store keys, CSV cells)    *)
(* are sequences of one-character strings.                                 *)
(***************************************************************************)
EXTENDS Integers, Sequences, FiniteSets, TLC

VARIABLES
    store,      \* the idb-keyval database: key string -> stored value
    queue,      \* per tab, the store transactions created and not yet committed
    lastDone,   \* history: <<wrapper, identifier>> -> the call that committed last
    nOps,       \* number of store API calls / user actions made so far
    image,      \* downscaler: the decoded image, [width, height]
    canvas,     \* downscaler: the canvas drawn, [drawn, width, height]
    avgRGB,     \* colour summarizer: the averaged pixel, [r, g, b]
    hueUlp,     \* colour summarizer: how the double of a hue on a threshold rounds
    colourName, \* colour summarizer: the name returned ("" before the scan)
    ironish,    \* colour summarizer: the ironish flag of the summary
    csvRows,    \* pXRF import: the parsed rows, column name -> cell text
    csvStats,   \* pXRF import: the summary computed from csvRows
    form,       \* App: the form record
    photos,     \* App: the photo list, each photo by its src
    activeIdx,  \* App: the active index (0-based, as in the code)
    summary,    \* App: photo.summary, null or the analysis of one src
    analysing,  \* App: srcs whose analysis image is loading
    pxrf,       \* App: [rows, summary] of the imported pXRF data
    csvReading, \* App: CSV files being read
    selections, \* App: file selections whose reads are not all done
    nSel,       \* App: number of file selections made so far
    savedList,  \* App: the saved-drafts list shown in the modal
    borehole,   \* CSV export: the borehole log given to exportBoreholeCSV
    csvBlob,    \* CSV export: the text of the Blob returned (<<>> before the call)
    reparsed,   \* CSV export: [done, rows], parseCSV of csvBlob
    docForm,    \* documents: the form given to the generators, every field
    docPhoto,   \* documents: the photo analysis, [summary]
    docCount,   \* documents: the number of photos
    docPxrf,    \* documents: the pXRF summary
    markdown,   \* documents: the lines generateMarkdown returned (<<>> before)
    quickDraft, \* documents: the sentences buildSuggestedText returned (<<>> before)
    client,     \* description request: the revision of the client, "App.jsx" or "part_003"
    suggested,  \* description request: the narrative text shown
    aiBusy,     \* description request: the busy flag
    aiError,    \* description request: the error message shown ("" for none)
    reqs,       \* description request: the requests in flight, [phase, reply]
    nReq,       \* description request: number of requests started so far
    uncaught,   \* description request: a handler's promise was rejected and nothing caught it
    lastReply,  \* history: how the request that has just completed ended, [kind, ...]
    server,     \* backend: the revision of the /api/describe handler that is deployed
    modelList,  \* backend: the models array of the deployed part_002 handler
    OPENAI_API_KEY, \* backend: process.env.OPENAI_API_KEY ("" when not set)
    inFlight,   \* backend: the request whose handler awaits the provider,
                \* [waiting, body, i, calls]: i is the model loop's index (from 1) and
                \* calls the calls settled so far, each [i, reply]
    answered,   \* backend: the last answer, [kind, method, body, called, upstream, calls,
                \* status, error, description]
    nServed,    \* backend: number of requests received so far
    uploads,    \* upload (part_003): the file selections, each the list of its files
    upPhotos,   \* upload (part_003): the photo list, each photo <<selection, file>>
    upActive,   \* upload (part_003): the active index
    nUp,        \* upload (part_003): number of selections made so far
    stale       \* history: the reads pending that were started before the last New
                \* Sample, [sels, csvs]

storeVars == <<store, queue, lastDone, nOps>>

imageVars == <<image, canvas>>

colourVars == <<avgRGB, hueUlp, colourName, ironish>>

csvVars == <<csvRows, csvStats>>

appVars == <<form, photos, activeIdx, summary, analysing, pxrf, csvReading,
             selections, nSel, savedList, stale>>

exportVars == <<borehole, csvBlob, reparsed>>

docVars == <<docForm, docPhoto, docCount, docPxrf, markdown, quickDraft>>

describeVars == <<client, suggested, aiBusy, aiError, reqs, nReq, uncaught, lastReply>>

backendVars == <<server, modelList, OPENAI_API_KEY, inFlight, answered, nServed>>

uploadVars == <<uploads, upPhotos, upActive, nUp>>

vars == <<storeVars, imageVars, colourVars, csvVars, appVars, exportVars, docVars,
          describeVars, backendVars, uploadVars>>

(***************************************************************************)
(* Bounds                                                                  *)
(***************************************************************************)
MaxOps == 3        \* store API calls in one behaviour of SpecStore
MaxSteps == 3      \* user actions in one behaviour of SpecApp
MaxQueue == 1      \* the user acts while fewer store requests than this are waiting
MaxImgDim == 4100  \* largest image edge tried
DimStep == 32      \* image edges are tried at multiples of DimStep ...
DimNear == 2       \* ... and within DimNear of 1, of maxDim and of 2*maxDim
ChanStep == 15     \* colour channels are tried at multiples of ChanStep ...
ChanNear == 1      \* ... and within ChanNear of the values where a threshold falls
MaxCellLen == 3    \* longest CSV cell text tried
MaxFieldLen == 3   \* longest text of a borehole interval field tried
MaxRequests == 2   \* description requests started in one behaviour
MaxServed == 2     \* requests the backend receives in one behaviour
MaxSelections == 2 \* file selections made in one behaviour (part_003)
MaxEmpty == 1      \* fields of the filled form emptied at a time

\* browser tabs sharing the database
Tabs == {"this", "other"}

(***************************************************************************)
(* JavaScript values                                                       *)
(***************************************************************************)
undefined == [jsType |-> "undefined"]

null == [jsType |-> "null"]

Max(a, b) == IF a >= b THEN a ELSE b

Min(a, b) == IF a <= b THEN a ELSE b

Abs(a) == IF a >= 0 THEN a ELSE -a

\* `x || d` for a string x
OrElse(x, d) == IF x = "" THEN d ELSE x

\* { ...payload, [field]: value }
Spread(payload, field, value) ==
    [f \in (DOMAIN payload) \cup {field} |-> IF f = field THEN value ELSE payload[f]]

(***************************************************************************)
(* Key strings                                                             *)
(***************************************************************************)
samplePrefix == <<"s", "a", "m", "p", "l", "e", ":">>
outcropPrefix == <<"o", "u", "t", "c", "r", "o", "p", ":">>
boreholePrefix == <<"b", "o", "r", "e", "h", "o", "l", "e", ":">>

key(id) == samplePrefix \o id
outcropKey(id) == outcropPrefix \o id
boreholeKey(id) == boreholePrefix \o id

\* String.prototype.startsWith
startsWith(s, p) == Len(s) >= Len(p) /\ SubSeq(s, 1, Len(p)) = p

\* index of the first ':' of s, Len(s)+1 when there is none
FirstColon(s) ==
    CHOOSE i \in 1..(Len(s) + 1) :
        /\ (i = Len(s) + 1 \/ s[i] = ":")
        /\ \A j \in 1..(i - 1) : s[j] # ":"

\* String(k).split(':')[1], for a k that holds a ':'
split1(k) ==
    LET rest == SubSeq(k, FirstColon(k) + 1, Len(k))
    IN  SubSeq(rest, 1, FirstColon(rest) - 1)

(***************************************************************************)
(* idb-keyval: get, set, del, keys on a store value                        *)
(***************************************************************************)
get(st, k) == IF k \in DOMAIN st THEN st[k] ELSE undefined

\* mutant: the write merges the new value into the stored one
setMerging(st, k, v) ==
    [x \in (DOMAIN st) \cup {k} |->
        IF x # k THEN st[x]
        ELSE IF k \in DOMAIN st
             THEN [f \in (DOMAIN st[k]) \cup (DOMAIN v) |->
                      IF f \in DOMAIN v THEN v[f] ELSE st[k][f]]
             ELSE v]

set(st, k, v) == [x \in (DOMAIN st) \cup {k} |-> IF x = k THEN v ELSE st[x]]

del(st, k) == [x \in (DOMAIN st) \ {k} |-> st[x]]

keys(st) == DOMAIN st

(***************************************************************************)
(* Store wrappers.  A save or delete creates one readwrite transaction:    *)
(* op, key and val are what it does; api, id and arg record the call it    *)
(* came from (the wrapper, the identifier it was called for, its record).  *)
(***************************************************************************)
Tx(op, k, v, api, id, arg) ==
    [op |-> op, key |-> k, val |-> v, api |-> api, id |-> id, arg |-> arg]

\* mutant: only the form is written, the rest of the payload is dropped
saveSampleFormOnly(payload) ==
    Tx("set", key(payload.form.sampleId), [form |-> payload.form], "sample",
       payload.form.sampleId, payload)

saveSample(payload) ==
    Tx("set", key(payload.form.sampleId), payload, "sample", payload.form.sampleId, payload)

loadSample(st, id) == get(st, key(id))

\* mutant: the delete forgets the namespace prefix
deleteSampleRawKey(id) == Tx("del", id, undefined, "sample", id, undefined)

deleteSample(id) == Tx("del", key(id), undefined, "sample", id, undefined)

\* s.photos || []
PhotosOf(s) == IF "photos" \in DOMAIN s THEN s.photos ELSE <<>>

\* keys of the database that pass the prefix filter
FilterKeys(st, prefix) == {k \in keys(st) : startsWith(k, prefix)}

\* The result of listSamples on st: rejected when a get comes back undefined
\* (s.form throws), else one summary per enumerated key, indexed by that key
\* (keys() enumerates in key order, so the index stands for the position).
listSamples(st) ==
    LET ks == FilterKeys(st, samplePrefix)
        s(k) == get(st, key(split1(k)))
    IN  IF \E k \in ks : s(k) = undefined
        THEN [ok |-> FALSE, rows |-> <<>>]
        ELSE [ok |-> TRUE,
              rows |-> [k \in ks |->
                         [id |-> split1(k),
                          project |-> OrElse(s(k).form.project, "-"),
                          date |-> s(k).form.date,
                          hasPhotos |-> Len(PhotosOf(s(k))) > 0]]]

\* saveOutcropLog throws on a falsy id and writes nothing
saveOutcropLogThrows(payload) == payload.form.sampleId = <<>>

saveOutcropLog(payload) ==
    Tx("set", outcropKey(payload.form.sampleId), Spread(payload, "kind", "outcrop"),
       "outcrop", payload.form.sampleId, payload)

loadOutcropLog(st, id) == get(st, outcropKey(id))

deleteOutcropLog(id) == Tx("del", outcropKey(id), undefined, "outcrop", id, undefined)

\* s?.form?.x || d for the string fields of the summary
FormFieldOr(s, f, d) ==
    IF s = undefined THEN d
    ELSE IF "form" \notin DOMAIN s THEN d
    ELSE IF f \notin DOMAIN s.form THEN d
    ELSE IF s.form[f] = "" \/ s.form[f] = <<>> THEN d ELSE s.form[f]

listOutcropLogs(st) ==
    LET ks == FilterKeys(st, outcropPrefix)
        s(k) == get(st, outcropKey(split1(k)))
    IN  [ok |-> TRUE,
         rows |-> [k \in ks |->
                    [id |-> split1(k),
                     kind |-> "outcrop",
                     title |-> FormFieldOr(s(k), "sampleId", split1(k)),
                     project |-> FormFieldOr(s(k), "project", "-"),
                     date |-> IF s(k) = undefined THEN "undefined" ELSE s(k).form.date,
                     hasPhotos |-> IF s(k) = undefined THEN FALSE
                                   ELSE Len(PhotosOf(s(k))) > 0]]]

saveBoreholeLogThrows(bh) == bh.holeId = <<>>

saveBoreholeLog(bh) ==
    Tx("set", boreholeKey(bh.holeId), Spread(bh, "kind", "borehole"),
       "borehole", bh.holeId, bh)

loadBoreholeLog(st, id) == get(st, boreholeKey(id))

deleteBoreholeLog(id) == Tx("del", boreholeKey(id), undefined, "borehole", id, undefined)

(***************************************************************************)
(* Photo downscale (part_003).  Math.round(n/d) is computed exactly: with  *)
(* doubles the product edge * (maxDim / longer) differs from the exact     *)
(* quotient by less than 1e-12, and at the exact halves (longer edge a     *)
(* multiple of 2048) the doubles are exact.                                *)
(***************************************************************************)
maxDim == 1024

\* Math.round(n / d) for n >= 0, d > 0: halves round up
RoundDiv(n, d) == (2 * n + d) \div (2 * d)

\* mutant: the scale is taken from the shorter edge
downscaleByShorter(img) ==
    LET shorter == Min(img.width, img.height)
    IN  IF maxDim >= shorter
        THEN [drawn |-> TRUE, width |-> img.width, height |-> img.height]
        ELSE [drawn |-> TRUE,
              width |-> RoundDiv(img.width * maxDim, shorter),
              height |-> RoundDiv(img.height * maxDim, shorter)]

\* the canvas downscaleDataUrl draws for a decoded image:
\* scale = min(1, maxDim / max(w, h)), each edge Math.round(edge * scale)
downscaleDataUrl(img) ==
    LET longer == Max(img.width, img.height)
    IN  IF maxDim >= longer
        THEN [drawn |-> TRUE, width |-> img.width, height |-> img.height]
        ELSE [drawn |-> TRUE,
              width |-> RoundDiv(img.width * maxDim, longer),
              height |-> RoundDiv(img.height * maxDim, longer)]

(***************************************************************************)
(* Colour summarizer (App.jsx).  Hue, saturation and value are kept as     *)
(* exact fractions of the channel values; a comparison with a threshold is *)
(* a cross-multiplication.                                                 *)
(***************************************************************************)
\* rgbToHsv: h = hNum / hDen degrees, s = sNum / sDen, v = vNum / 255; ulp
\* says where the double h lies when the exact hue equals a threshold: below
\* it (-1), on it (0) or above it (1)
rgbToHsv(r, g, b) ==
    LET max == Max(r, Max(g, b))
        min == Min(r, Min(g, b))
        d == max - min
        sixths == IF max = r THEN (g - b) + (IF g < b THEN 6 * d ELSE 0)
                  ELSE IF max = g THEN (b - r) + 2 * d
                  ELSE (r - g) + 4 * d
    IN  [hNum |-> IF d = 0 THEN 0 ELSE 60 * sixths,
         hDen |-> IF d = 0 THEN 1 ELSE d,
         sNum |-> IF max = 0 THEN 0 ELSE d,
         sDen |-> IF max = 0 THEN 1 ELSE max,
         vNum |-> max,
         ulp |-> 0]

\* (max, min) pairs whose saturation is exactly 0.12 and whose quotient
\* d / max in doubles comes out as 0.1199999999999999x
SatRoundedDown == {<<75, 66>>, <<125, 110>>, <<150, 132>>, <<225, 198>>, <<250, 220>>}

\* s < 0.12
SatBelow(hsv) ==
    \/ 100 * hsv.sNum < 12 * hsv.sDen
    \/ <<hsv.sDen, hsv.sDen - hsv.sNum>> \in SatRoundedDown

\* v < 0.18
ValDark(hsv) == 100 * hsv.vNum < 18 * 255

\* v > 0.8
ValBright(hsv) == 10 * hsv.vNum > 8 * 255

\* the ways the double of a hue that is exactly a threshold can round:
\* (5, 6, 0) gives 69.99999999999999 and (60, 66, 30) 70.00000000000001
Ulps == {-1, 0, 1}

\* the hue is exactly deg
HueTie(hsv, deg) == hsv.hNum = deg * hsv.hDen

\* the thresholds a hue is compared with
HueMarks == {20, 45, 70, 160, 250, 300, 340, 345}

\* the double of the hue as it came out for the pixel
Rounded(hsv, u) == [hsv EXCEPT !.ulp = IF \E deg \in HueMarks : HueTie(hsv, deg) THEN u ELSE 0]

\* h < deg
HueBelow(hsv, deg) == hsv.hNum < deg * hsv.hDen \/ (HueTie(hsv, deg) /\ hsv.ulp < 0)

\* h > deg
HueAbove(hsv, deg) == hsv.hNum > deg * hsv.hDen \/ (HueTie(hsv, deg) /\ hsv.ulp > 0)

\* (max, min) pairs whose saturation is exactly 0.3 and whose quotient
\* d / max in doubles comes out as 0.30000000000000004
SatRoundedUp ==
    {<<70, 49>>, <<110, 77>>, <<140, 98>>, <<150, 105>>, <<210, 147>>, <<220, 154>>,
     <<230, 161>>}

\* s > 0.3
SatAbove(hsv) ==
    \/ 10 * hsv.sNum > 3 * hsv.sDen
    \/ <<hsv.sDen, hsv.sDen - hsv.sNum>> \in SatRoundedUp

\* ironish of usePhotoAnalysis: (hsv.h < 70 || hsv.h > 340) && hsv.s > 0.3
Ironish(hsv) == (HueBelow(hsv, 70) \/ HueAbove(hsv, 340)) /\ SatAbove(hsv)

\* mutant: white from v >= 0.8
hsvToRockColourNameGe(hsv) ==
    IF ValDark(hsv) THEN "very dark / black"
    ELSE IF SatBelow(hsv) THEN (IF 10 * hsv.vNum >= 8 * 255 THEN "white" ELSE "grey")
    ELSE IF HueBelow(hsv, 20) \/ ~HueBelow(hsv, 345) THEN "red"
    ELSE IF HueBelow(hsv, 45) THEN "orange / ochre"
    ELSE IF HueBelow(hsv, 70) THEN "yellow"
    ELSE IF HueBelow(hsv, 160) THEN "green"
    ELSE IF HueBelow(hsv, 250) THEN "blue"
    ELSE IF HueBelow(hsv, 300) THEN "purple"
    ELSE "brown"

hsvToRockColourName(hsv) ==
    IF ValDark(hsv) THEN "very dark / black"
    ELSE IF SatBelow(hsv) THEN (IF ValBright(hsv) THEN "white" ELSE "grey")
    ELSE IF HueBelow(hsv, 20) \/ ~HueBelow(hsv, 345) THEN "red"
    ELSE IF HueBelow(hsv, 45) THEN "orange / ochre"
    ELSE IF HueBelow(hsv, 70) THEN "yellow"
    ELSE IF HueBelow(hsv, 160) THEN "green"
    ELSE IF HueBelow(hsv, 250) THEN "blue"
    ELSE IF HueBelow(hsv, 300) THEN "purple"
    ELSE "brown"

(***************************************************************************)
(* pXRF statistics (App.jsx).  A cell text is a sequence of characters; a  *)
(* number is a fixed-point integer, its value times Scale.                 *)
(***************************************************************************)
Scale == 10 ^ MaxCellLen

NaN == [nan |-> TRUE, val |-> 0]

Num(x) == [nan |-> FALSE, val |-> x]

Digits == {"0", "1", "5"}

\* the characters cell texts are made of: digits, point, sign, a letter that
\* sorts after 'e' and one that sorts before it
CellChars == {"1", "5", ".", "-", "x", "d"}

CharCode(c) ==
    CASE c = "+" -> 43 [] c = "-" -> 45 [] c = "." -> 46 [] c = "0" -> 48
      [] c = "1" -> 49 [] c = "5" -> 53 [] c = "d" -> 100 [] c = "x" -> 120

\* c is in the class [0-9.+-eE]: a digit, a point, the range '+' to 'e', or E
InNumClass(c) ==
    \/ c \in Digits
    \/ c = "."
    \/ (CharCode(c) >= 43 /\ CharCode(c) <= 101)
    \/ c = "E"

\* String(v).replace(/[^0-9.+-eE]/g, "")
StripNonNum(text) == SelectSeq(text, InNumClass)

DigitVal(c) == CASE c = "0" -> 0 [] c = "1" -> 1 [] c = "5" -> 5

RECURSIVE DigitsVal(_)
DigitsVal(ds) ==
    IF ds = <<>> THEN 0 ELSE 10 * DigitsVal(SubSeq(ds, 1, Len(ds) - 1)) + DigitVal(ds[Len(ds)])

\* Number(text) for a text of signs, digits, points and letters: 0 for the
\* empty text, the value of a decimal literal, NaN for anything else
Number(text) ==
    LET signed == text # <<>> /\ text[1] \in {"+", "-"}
        body == IF signed THEN Tail(text) ELSE text
        dots == {i \in 1..Len(body) : body[i] = "."}
        dot == IF dots = {} THEN Len(body) + 1 ELSE CHOOSE i \in dots : TRUE
        intPart == SubSeq(body, 1, dot - 1)
        fracPart == SubSeq(body, dot + 1, Len(body))
        literal == /\ \A i \in 1..Len(body) : body[i] \in Digits \cup {"."}
                   /\ Cardinality(dots) <= 1
                   /\ \E i \in 1..Len(body) : body[i] \in Digits
        mag == DigitsVal(intPart) * Scale
               + DigitsVal(fracPart) * 10 ^ (MaxCellLen - Len(fracPart))
    IN  IF text = <<>> THEN Num(0)
        ELSE IF ~literal THEN NaN
        ELSE Num(IF text[1] = "-" THEN -mag ELSE mag)

\* num(row[col]): NaN for a missing or empty cell, else Number of the
\* stripped text
num(row, col) ==
    IF col \notin DOMAIN row THEN NaN
    ELSE IF row[col] = <<>> THEN NaN
    ELSE Number(StripNonNum(row[col]))

\* a ?? b
Coalesce(a, b) == IF a = null \/ a = undefined THEN b ELSE a

elems == {"Fe", "Cu", "Zn", "Pb", "As", "Mn"}

\* the value a row contributes for element e
RowValue(row, e) ==
    Coalesce(num(row, e),
        Coalesce(num(row, e \o "%"),
            Coalesce(num(row, e \o "_ppm"), num(row, e \o "_wt%"))))

\* byEl[e]: the values pushed for e, in row order
RECURSIVE byEl(_, _)
byEl(rows, e) ==
    IF rows = <<>> THEN <<>>
    ELSE (IF RowValue(Head(rows), e).nan THEN <<>> ELSE <<RowValue(Head(rows), e).val>>)
         \o byEl(Tail(rows), e)

RECURSIVE SumSeq(_)
SumSeq(arr) == IF arr = <<>> THEN 0 ELSE Head(arr) + SumSeq(Tail(arr))

\* stat(arr); mean is the fraction sum / n
stat(arr) ==
    IF arr = <<>> THEN null
    ELSE LET sorted == SortSeq(arr, LAMBDA a, b : a < b)
         IN  [n |-> Len(arr),
              min |-> sorted[1],
              median |-> sorted[(Len(sorted) \div 2) + 1],
              mean |-> [sum |-> SumSeq(arr), n |-> Len(arr)],
              max |-> sorted[Len(sorted)]]

pxrfStats(rows) == [e \in elems |-> stat(byEl(rows, e))]

(***************************************************************************)
(* Text helpers: texts are sequences of characters                         *)
(***************************************************************************)
\* String.prototype.includes for one character
Includes(text, c) == \E i \in 1..Len(text) : text[i] = c

\* String.prototype.replaceAll(c, by) for one character c and a text by
RECURSIVE ReplaceAll(_, _, _)
ReplaceAll(text, c, by) ==
    IF text = <<>> THEN <<>>
    ELSE (IF Head(text) = c THEN by ELSE <<Head(text)>>) \o ReplaceAll(Tail(text), c, by)

\* Array.prototype.join
RECURSIVE Join(_, _)
Join(parts, sep) ==
    IF parts = <<>> THEN <<>>
    ELSE IF Len(parts) = 1 THEN parts[1]
    ELSE parts[1] \o sep \o Join(Tail(parts), sep)

WhiteSpace == {" ", "\n"}

\* String.prototype.trim
Trim(text) ==
    LET ink == {i \in 1..Len(text) : text[i] \notin WhiteSpace}
    IN  IF ink = {} THEN <<>>
        ELSE SubSeq(text, CHOOSE i \in ink : \A j \in ink : i <= j,
                          CHOOSE i \in ink : \A j \in ink : i >= j)

\* String.prototype.split at the positions cuts (each one character wide)
RECURSIVE SplitAt(_, _)
SplitAt(text, cuts) ==
    IF cuts = {} THEN <<text>>
    ELSE LET last == CHOOSE i \in cuts : \A j \in cuts : i >= j
         IN  Append(SplitAt(SubSeq(text, 1, last - 1), cuts \ {last}),
                    SubSeq(text, last + 1, Len(text)))

(***************************************************************************)
(* Borehole CSV export (part_004) and the CSV parser (App.jsx)             *)
(***************************************************************************)
CsvHeader == <<<<"F", "r", "o", "m", "_", "m">>, <<"T", "o", "_", "m">>, <<"U", "n", "i", "t">>,
               <<"D", "e", "s", "c", "r", "i", "p", "t", "i", "o", "n">>,
               <<"N", "o", "t", "e", "s">>>>

\* iv.f ?? '' and iv.f || '' for a text field: the empty text when missing
FieldOrEmpty(iv, f) == IF f \in DOMAIN iv THEN iv[f] ELSE <<>>

\* the cells of one interval's row; line breaks of description and notes
\* become spaces
IntervalRow(iv) ==
    <<FieldOrEmpty(iv, "from"), FieldOrEmpty(iv, "to"), FieldOrEmpty(iv, "unit"),
      ReplaceAll(FieldOrEmpty(iv, "description"), "\n", <<" ">>),
      ReplaceAll(FieldOrEmpty(iv, "notes"), "\n", <<" ">>)>>

\* a cell as emitted: wrapped in quotes with its quotes doubled when it
\* includes a comma, as it is otherwise
EmitCell(c) ==
    IF Includes(c, ",") THEN <<"\"">> \o ReplaceAll(c, "\"", <<"\"", "\"">>) \o <<"\"">> ELSE c

\* the text of the Blob exportBoreholeCSV returns
exportBoreholeCSV(b) ==
    LET rows == <<CsvHeader>> \o [i \in 1..Len(b.intervals) |-> IntervalRow(b.intervals[i])]
    IN  Join([i \in 1..Len(rows) |->
                 Join([k \in 1..Len(rows[i]) |-> EmitCell(rows[i][k])], <<",">>)],
             <<"\n">>)

\* the commas of a line that /,(?=(?:[^"]*"[^"]*")*[^"]*$)/ matches: those
\* followed by an even number of quotes
SplitCommas(line) ==
    {p \in 1..Len(line) :
        /\ line[p] = ","
        /\ Cardinality({q \in (p + 1)..Len(line) : line[q] = "\""}) % 2 = 0}

\* s.replace(/^"|"$/g, ""): a quote at the start and a quote at the end go
StripQuotes(cell) ==
    LET a == IF cell # <<>> /\ cell[1] = "\"" THEN 2 ELSE 1
        b == IF cell # <<>> /\ cell[Len(cell)] = "\"" THEN Len(cell) - 1 ELSE Len(cell)
    IN  SubSeq(cell, a, b)

\* parseCSV: the rows after the header row, each a function from the trimmed
\* header to the trimmed cell ("" when the row is short; of two columns with
\* one header the later one)
parseCSV(text) ==
    LET trimmed == Trim(text)
        lines == SplitAt(trimmed, {p \in 1..Len(trimmed) : trimmed[p] = "\n"})
        cells == [i \in 1..Len(lines) |->
                     LET raw == SplitAt(lines[i], SplitCommas(lines[i]))
                     IN  [k \in 1..Len(raw) |-> StripQuotes(raw[k])]]
        headers == cells[1]
        Col(h) == CHOOSE k \in 1..Len(headers) :
                      /\ Trim(headers[k]) = h
                      /\ \A j \in 1..Len(headers) : Trim(headers[j]) = h => j <= k
    IN  [i \in 1..(Len(cells) - 1) |->
            [h \in {Trim(headers[k]) : k \in 1..Len(headers)} |->
                IF Col(h) <= Len(cells[i + 1]) THEN Trim(cells[i + 1][Col(h)]) ELSE <<>>]]

(***************************************************************************)
(* Document generators (App.jsx).  A document is the sequence of its       *)
(* pieces; a piece that renders a field is [label, text], the text being   *)
(* what stands for the field's value.  The category is a sequence of       *)
(* characters, the other field values are strings.                         *)
(***************************************************************************)
\* the placeholder, the em dash U+2014
dash == "---"

\* x || dash for a string x
OrDash(x) == IF x = "" THEN dash ELSE x

\* arr.join(sep) for an array of strings
RECURSIVE JoinStrings(_, _)
JoinStrings(arr, sep) ==
    IF arr = <<>> THEN ""
    ELSE IF Len(arr) = 1 THEN arr[1]
    ELSE arr[1] \o sep \o JoinStrings(Tail(arr), sep)

\* alt(arr) of generateMarkdown
alt(arr) == IF Len(arr) > 0 THEN JoinStrings(arr, ", ") ELSE dash

\* Object.values(pxrfSummary).some(Boolean)
SomeSummary(px) == \E e \in DOMAIN px : px[e] # null

\* s.mean.toFixed(2), from the hundredths nearest to sum / (n * Scale)
toFixed2(mean) ==
    LET den == mean.n * Scale
        mag == RoundDiv(100 * Abs(mean.sum), den)
        frac == mag % 100
    IN  (IF mean.sum < 0 /\ mag > 0 THEN "-" ELSE "") \o ToString(mag \div 100) \o "."
        \o (IF frac < 10 THEN "0" ELSE "") \o ToString(frac)

ElementOrder == <<"Fe", "Cu", "Zn", "Pb", "As", "Mn">>

\* the element list of the pXRF statistics line
PxrfLine(px) ==
    [k \in 1..Len(ElementOrder) |->
        LET el == ElementOrder[k]
        IN  IF el \in DOMAIN px /\ px[el] # null
            THEN el \o " mean " \o toFixed2(px[el].mean)
            ELSE el \o " " \o dash]

\* generateMarkdown: the rendered fields in template order, then the
\* conditional pieces
generateMarkdown(f, photo, photosCount, px) ==
    <<[label |-> "Project", text |-> OrDash(f.project)],
      [label |-> "Sample ID", text |-> f.sampleId],
      [label |-> "Date", text |-> f.date],
      [label |-> "Location lat", text |-> OrDash(f.lat)],
      [label |-> "Location lon", text |-> OrDash(f.lon)],
      [label |-> "Location elev", text |-> OrDash(f.elevation)],
      [label |-> "Category", text |-> f.category],
      [label |-> "Context", text |-> f.context],
      [label |-> "Host unit", text |-> OrDash(f.hostUnit)],
      [label |-> "Weathering", text |-> f.weatheringGrade],
      [label |-> "Colour fresh", text |-> OrDash(f.colourFresh)],
      [label |-> "Colour weathered", text |-> OrDash(f.colourWeathered)],
      [label |-> "Lustre", text |-> f.lustre],
      [label |-> "Grain size", text |-> OrDash(f.grainSize)],
      [label |-> "Fabric",
       text |-> f.fabric \o (IF f.fabricNotes # "" THEN " - " \o f.fabricNotes ELSE "")],
      [label |-> "Hardness", text |-> OrDash(f.hardness)],
      [label |-> "Streak", text |-> OrDash(f.streak)],
      [label |-> "Magnetism", text |-> f.magnetism],
      [label |-> "HCl reaction", text |-> f.hcl],
      [label |-> "SG", text |-> OrDash(f.sg)],
      [label |-> "Minerals", text |-> alt(f.minerals)],
      [label |-> "Alteration", text |-> alt(f.alteration)],
      [label |-> "Sulfides", text |-> alt(f.sulfides)],
      [label |-> "Mineralization notes", text |-> OrDash(f.mineralizationNotes)],
      [label |-> "Structures", text |-> OrDash(f.structures)],
      [label |-> "Type", text |-> f.sampleType],
      [label |-> "Length", text |-> OrDash(f.sampleLength_m)],
      [label |-> "pXRF", text |-> OrDash(f.pxrf)]>>
    \o (IF SomeSummary(px)
        THEN <<[label |-> "pXRF summary", text |-> PxrfLine(px)]>> ELSE <<>>)
    \o <<[label |-> "Notes", text |-> OrDash(f.notes)]>>
    \o (IF photosCount # 0
        THEN <<[label |-> "Photos", text |-> Max(0, photosCount - 1)]>> ELSE <<>>)
    \o (IF photo.summary # null
        THEN <<[label |-> "Photo scan",
                text |-> photo.summary.primaryColourName
                         \o (IF photo.summary.ironish THEN ", iron-oxide likely" ELSE "")]>>
        ELSE <<>>)

\* toLowerCase of one character
LowerChar(c) ==
    CASE c = "G" -> "g" [] c = "I" -> "i" [] c = "L" -> "l" [] c = "M" -> "m"
      [] c = "O" -> "o" [] c = "R" -> "r" [] c = "S" -> "s" [] OTHER -> c

\* text.toLowerCase() for a sequence of characters
LowerCase(text) == [i \in 1..Len(text) |-> LowerChar(text[i])]

\* the text has pat as a substring
HasSubstring(text, pat) ==
    \E i \in 1..(Len(text) - Len(pat) + 1) : SubSeq(text, i, i + Len(pat) - 1) = pat

\* /gossan|iron/i.test(category)
MatchesGossanIron(category) ==
    \/ HasSubstring(LowerCase(category), <<"g", "o", "s", "s", "a", "n">>)
    \/ HasSubstring(LowerCase(category), <<"i", "r", "o", "n">>)

\* toLowerCase of the values the selects offer for lustre, fabric, grain
\* size, HCl reaction and magnetism
toLowerCase(x) ==
    CASE x = "Earthy" -> "earthy" [] x = "Massive" -> "massive" [] x = "Clay" -> "clay"
      [] x = "None" -> "none" [] x = "Weak" -> "weak" [] x = "Strong" -> "strong"
      [] OTHER -> x

InterpretiveSentence ==
    "Interpretation: iron-oxide gossan likely (goethite/hematite); check boxwork + Cu-Zn-Pb anomalies via pXRF."

\* mutant: the sentence is added for a matching category whatever the photo
InterpretsCategoryOnly(f, photo) == MatchesGossanIron(f.category)

\* photo?.summary?.ironish && /gossan|iron/i.test(form.category)
Interprets(f, photo) ==
    /\ photo.summary # null
    /\ photo.summary.ironish
    /\ MatchesGossanIron(f.category)

\* buildSuggestedText: the sentences pushed to bits, in order
buildSuggestedText(f, photo) ==
    LET domCol == IF photo.summary # null THEN photo.summary.primaryColourName ELSE ""
        first == IF f.colourWeathered # "" THEN f.colourWeathered ELSE domCol
        colourLine == JoinStrings(
            (IF first # "" THEN <<first>> ELSE <<>>)
            \o (IF f.colourFresh # "" THEN <<"(fresh " \o f.colourFresh \o ")">> ELSE <<>>),
            " ")
    IN  <<"Colour: " \o (IF colourLine # "" THEN colourLine ELSE "n/a")
          \o "; lustre " \o toLowerCase(f.lustre) \o ".">>
        \o (IF f.fabric # "" THEN <<"Fabric: " \o toLowerCase(f.fabric) \o ".">> ELSE <<>>)
        \o (IF f.grainSize # "" THEN <<"Grain size: " \o toLowerCase(f.grainSize) \o ".">> ELSE <<>>)
        \o (IF Len(f.alteration) > 0
            THEN <<"Alteration: " \o JoinStrings(f.alteration, ", ") \o ".">> ELSE <<>>)
        \o (IF Len(f.sulfides) > 0
            THEN <<"Sulfides: " \o JoinStrings(f.sulfides, ", ") \o ".">> ELSE <<>>)
        \o (IF f.hcl # "None" THEN <<"HCl reaction " \o toLowerCase(f.hcl) \o ".">> ELSE <<>>)
        \o (IF f.magnetism # "None" THEN <<"Magnetism " \o toLowerCase(f.magnetism) \o ".">> ELSE <<>>)
        \o (IF Interprets(f, photo) THEN <<InterpretiveSentence>> ELSE <<>>)

ENUMS_category ==
    {<<"I", "g", "n", "e", "o", "u", "s">>,
     <<"S", "e", "d", "i", "m", "e", "n", "t", "a", "r", "y">>,
     <<"M", "e", "t", "a", "m", "o", "r", "p", "h", "i", "c">>,
     <<"R", "e", "g", "o", "l", "i", "t", "h", " ", "/", " ", "L", "a", "t", "e", "r", "i", "t", "e">>,
     <<"G", "o", "s", "s", "a", "n", " ", "/", " ", "I", "r", "o", "n", "-", "o", "x", "i", "d", "e">>,
     <<"O", "r", "e", " ", "/", " ", "M", "i", "n", "e", "r", "a", "l", "i", "z", "e", "d">>}

\* the form makeDefaultForm returns, every field
DefaultFields ==
    [project |-> "", sampleId |-> "MDO", date |-> "2025-01-01T00:00", lat |-> "", lon |-> "",
     elevation |-> "", category |-> <<"G", "o", "s", "s", "a", "n", " ", "/", " ", "I", "r", "o", "n", "-", "o", "x", "i", "d", "e">>,
     weatheringGrade |-> "Strong", colourFresh |-> "", colourWeathered |-> "",
     lustre |-> "Earthy", grainSize |-> "", fabric |-> "Massive", hardness |-> "",
     hcl |-> "None", magnetism |-> "None", streak |-> "", sg |-> "", alteration |-> <<>>,
     minerals |-> <<>>, sulfides |-> <<>>, fabricNotes |-> "", mineralizationNotes |-> "",
     structures |-> "", hostUnit |-> "", context |-> "Outcrop", sampleType |-> "Grab",
     sampleLength_m |-> "", pxrf |-> "", notes |-> ""]

\* a form with every field filled in
FilledFields ==
    [project |-> "P", sampleId |-> "S1", date |-> "2025-01-01T00:00", lat |-> "1.5",
     lon |-> "2.5", elevation |-> "100", category |-> <<"G", "o", "s", "s", "a", "n", " ", "/", " ", "I", "r", "o", "n", "-", "o", "x", "i", "d", "e">>,
     weatheringGrade |-> "Strong", colourFresh |-> "grey", colourWeathered |-> "brown",
     lustre |-> "Earthy", grainSize |-> "Clay", fabric |-> "Massive", hardness |-> "3",
     hcl |-> "Weak", magnetism |-> "Strong", streak |-> "Black", sg |-> "High",
     alteration |-> <<"Silicification", "Hematitization">>, minerals |-> <<"Goethite">>,
     sulfides |-> <<"Pyrite">>, fabricNotes |-> "n", mineralizationNotes |-> "m",
     structures |-> "s", hostUnit |-> "h", context |-> "Outcrop", sampleType |-> "Grab",
     sampleLength_m |-> "1", pxrf |-> "x", notes |-> "t"]

(***************************************************************************)
(* Description request (App.jsx and part_003).  A reply is                 *)
(* [status, json, text, data]: json says that the body parses as JSON,     *)
(* text is the body as text and data the parsed body.                      *)
(***************************************************************************)
\* res.ok
ResOk(reply) == reply.status >= 200 /\ reply.status <= 299

\* a || b for strings
OrString(a, b) == IF a = "" THEN b ELSE a

\* data.f || d for an object whose fields are strings: d when the field is
\* missing or empty
FieldOr(data, f, d) == IF f \in DOMAIN data THEN OrString(data[f], d) ELSE d

\* the message of the Error thrown for a reply that is not ok:
\* txt || `HTTP ${res.status}`
HttpErrorMessage(reply) == OrString(reply.text, "HTTP " \o ToString(reply.status))

\* part_003: data.description || data.text || "(no description returned)"
ShownText(data) ==
    FieldOr(data, "description", FieldOr(data, "text", "(no description returned)"))

\* part_003: typeof err?.message === "string" ? err.message : "Failed to ..."
CaughtMessage(err) ==
    IF "message" \in DOMAIN err THEN err.message ELSE "Failed to generate description."

\* new Error(message)
Error(message) == [message |-> message]

(***************************************************************************)
(* Backend /api/describe (api/describe.js, part_000, part_002).  A message *)
(* is the sequence of the pieces its template concatenates: Lit(s) is      *)
(* literal text, BodyText(b) the text of a provider body.  A provider body *)
(* is [id, len]: which text it is and how many characters of it there are. *)
(* A provider reply is [status, json, body, content]: json says that the   *)
(* body parses as JSON and content is choices[0].message.content of it;    *)
(* status 0 stands for a fetch that was rejected.  A request body is the   *)
(* raw text posted: "{" (not JSON), "" (none), "{}" and "{form}".          *)
(***************************************************************************)
Lit(s) == [kind |-> "lit", text |-> s, len |-> 0]

BodyText(b) == [kind |-> "body", text |-> b.id, len |-> b.len]

\* text.slice(0, end)
slice(b, end) == [b EXCEPT !.len = Min(b.len, end)]

sliceLimit == 1200

\* the revisions of the handler, each named by its file and first line
Servers ==
    {"describe.js:1", "describe.js:79", "part_000:21", "part_000:161", "part_000:266",
     "part_002:4"}

models == <<"gpt-4o-mini">>

\* res.status(status).json({ error }) or res.status(200).json({ description })
Respond(status, error, description) ==
    [status |-> status, error |-> error, description |-> description]

\* the handler goes on to the provider: nothing is answered yet
Await == Respond(0, <<>>, "")

\* the platform answers for a handler that threw, or for a module that did not load
PlatformError(status) == Respond(status, <<>>, "")

ValidJson(raw) == raw \in {"{}", "{form}"}

HasForm(raw) == raw = "{form}"

KeyCheck(apiKey) ==
    IF apiKey = ""
    THEN Respond(500, <<Lit("Missing "), Lit("OPENAI_API_KEY")>>, "")
    ELSE Await

\* api/describe.js, first handler, up to its fetch: req.body is read before the try
handlerBody(apiKey, raw) ==
    IF ~ValidJson(raw)
    THEN {PlatformError(s) : s \in {400, 500}}
    ELSE {KeyCheck(apiKey)}

\* api/describe.js, second handler (also part_001), and part_002, up to fetch
handlerRaw(apiKey, raw) ==
    IF raw # "" /\ ~ValidJson(raw)
    THEN {Respond(400, <<Lit("Invalid JSON body")>>, "")}
    ELSE {KeyCheck(apiKey)}

\* server.js (both revisions) up to fetch: express.json() rejects a body that is not JSON
appPost(apiKey, raw) ==
    IF raw # "" /\ ~ValidJson(raw)
    THEN {PlatformError(400)}
    ELSE {KeyCheck(apiKey)}

GenericFailure == Respond(500, <<Lit("Failed to generate geological description.")>>, "")

\* the OpenAI client revision up to client.chat.completions.create: the client is
\* built when the module loads, which the library may refuse without a key
handlerClient(apiKey, raw) ==
    (IF apiKey = "" THEN {PlatformError(500)} ELSE {})
    \cup {IF ~ValidJson(raw) THEN GenericFailure
          ELSE IF ~HasForm(raw) THEN Respond(400, <<Lit("Missing form data")>>, "")
          ELSE Await}

BeforeCall(srv, apiKey, raw) ==
    CASE srv = "describe.js:1" -> handlerBody(apiKey, raw)
      [] srv \in {"describe.js:79", "part_002:4"} -> handlerRaw(apiKey, raw)
      [] srv \in {"part_000:21", "part_000:161"} -> appPost(apiKey, raw)
      [] srv = "part_000:266" -> handlerClient(apiKey, raw)

ok(r) == r.status \in 200..299

Unreachable(r) == r.status = 0

\* catch (err): res.status(500).json({ error: err.message })
Caught(message) == Respond(500, message, "")

\* what the rejected call throws: fetch, or JSON.parse of a body that is not JSON
ThrownMessage(r) ==
    IF Unreachable(r) THEN <<Lit("fetch failed")>> ELSE <<Lit("Unexpected token")>>

Throws(r) == Unreachable(r) \/ (ok(r) /\ ~r.json)

\* api/describe.js, first handler, from the provider's reply on
handlerBodyReply(r) ==
    IF Unreachable(r) THEN Caught(ThrownMessage(r))
    ELSE IF ~ok(r) THEN Caught(<<Lit("Upstream API error: "), BodyText(r.body)>>)
    ELSE IF ~r.json THEN Caught(ThrownMessage(r))
    ELSE Respond(200, <<>>, IF r.content # "" THEN r.content ELSE "No description generated.")

\* return res.status(r.status).json({ error: `<prefix>${r.status}: ${text}` })
Relay(prefix, r) ==
    Respond(r.status, <<Lit(prefix), Lit(ToString(r.status)), Lit(": "), BodyText(r.body)>>, "")

\* second handler of api/describe.js and both revisions of server.js, from the reply on
handlerRelayReply(prefix, r) ==
    IF Throws(r) THEN Caught(ThrownMessage(r))
    ELSE IF ~ok(r) THEN Relay(prefix, r)
    ELSE Respond(200, <<>>, r.content)

\* part_002, call(model): what it throws, [status, message] (status 0: none), or returns
call(r) ==
    IF Throws(r) THEN [threw |-> TRUE, status |-> 0, message |-> ThrownMessage(r), value |-> ""]
    ELSE IF ~ok(r)
    THEN [threw |-> TRUE, status |-> r.status,
          message |-> <<Lit("Upstream "), Lit(ToString(r.status)), Lit(": "),
                        BodyText(slice(r.body, sliceLimit))>>,
          value |-> ""]
    ELSE [threw |-> FALSE, status |-> 0, message |-> <<>>, value |-> r.content]

\* part_002, the catch of the last model
LastModelFailed(e) ==
    LET s == IF e.status # 0 THEN e.status ELSE 500
        msg == CASE s = 401 -> <<Lit("OpenAI "), Lit("401"), Lit(": key scopes/workspace insufficient.")>>
                 [] s = 404 -> <<Lit("OpenAI "), Lit("404"), Lit(": model unavailable.")>>
                 [] s = 429 -> <<Lit("OpenAI "), Lit("429"), Lit(": quota/rate limited.")>>
                 [] OTHER -> <<Lit("Upstream "), Lit(ToString(s)), Lit(": ")>> \o e.message
    IN  Respond(500, msg, "")

\* mutant: the error is answered when the first model has failed
modelLoopNoFallback(ms, i, r) ==
    LET c == call(r)
    IN  IF ~c.threw THEN Respond(200, <<>>, c.value)
        ELSE LastModelFailed(c)

\* part_002, one turn of the model loop over the array ms: Await stands for
\* going on to the next model
modelLoop(ms, i, r) ==
    LET c == call(r)
    IN  IF ~c.threw THEN Respond(200, <<>>, c.value)
        ELSE IF i = Len(ms) THEN LastModelFailed(c)
        ELSE Await

\* the OpenAI client revision from the provider's reply on: the library throws for a
\* reply it cannot use
handlerClientReply(r) ==
    IF Throws(r) \/ ~ok(r) THEN GenericFailure ELSE Respond(200, <<>>, r.content)

AfterCall(srv, ms, i, r) ==
    CASE srv = "describe.js:1" -> handlerBodyReply(r)
      [] srv \in {"describe.js:79", "part_000:161"} -> handlerRelayReply("Upstream ", r)
      [] srv = "part_000:21" -> handlerRelayReply("OpenAI ", r)
      [] srv = "part_002:4" -> modelLoop(ms, i, r)
      [] srv = "part_000:266" -> handlerClientReply(r)

\* a request that is not a POST: the handlers refuse it, server.js serves the page
NotPostAnswer(srv) ==
    IF srv \in {"part_000:21", "part_000:161"}
    THEN Respond(200, <<>>, "")
    ELSE Respond(405, <<Lit("Method not allowed")>>, "")

NoUpstream == [status |-> 0, json |-> FALSE, body |-> [id |-> "", len |-> 0], content |-> ""]

NoCall == [waiting |-> FALSE, body |-> "", i |-> 0, calls |-> <<>>]

NoAnswer ==
    [kind |-> "none", method |-> "", body |-> "", called |-> FALSE, upstream |-> NoUpstream,
     calls |-> <<>>, status |-> 0, error |-> <<>>, description |-> ""]

Answer(method, raw, called, r, a) ==
    [kind |-> "answer", method |-> method, body |-> raw, called |-> called, upstream |-> r,
     calls |-> <<>>, status |-> a.status, error |-> a.error, description |-> a.description]

IdleBackend ==
    /\ server = "describe.js:79"
    /\ modelList = models
    /\ OPENAI_API_KEY = ""
    /\ inFlight = NoCall
    /\ answered = NoAnswer
    /\ nServed = 0

(***************************************************************************)
(* File upload of part_003: each file is read, then decoded and downscaled *)
(* by downscaleDataUrl; Promise.all appends a selection's photos when all  *)
(* of them are done.  A file is [decodable, stage]; the stages are         *)
(* "reading" (FileReader), "decoding" (img.src set) and "done" (resolved). *)
(* A photo is <<selection, file>>.                                         *)
(***************************************************************************)
\* mutant: the promise is resolved for an image that fails to decode too
ResolvesAlways(file) == TRUE

\* downscaleDataUrl sets img.onload only: its promise resolves for an image
\* that decodes, and for no other
Resolves(file) == file.decodable

\* every reader promise of the selection is resolved
AllDone(files) == \A i \in 1..Len(files) : files[i].stage = "done"

\* the then-callback of Promise.all: [...prev, ...dataUrls.map(...)]
Appended(prev, sel, files) == prev \o [i \in 1..Len(files) |-> <<sel, i>>]

IdleUpload ==
    /\ uploads = <<>>
    /\ upPhotos = <<>>
    /\ upActive = 0
    /\ nUp = 0

(***************************************************************************)
(* The form (App.jsx).  project stands for every field of the form other   *)
(* than the identifier and the date.                                       *)
(***************************************************************************)
generateSampleId == <<"M", "D", "O">>

makeDefaultForm == [project |-> "", sampleId |-> generateSampleId, date |-> "now"]

\* photos[activeIdx]?.src || null
ActiveSrc(ph, idx) == IF idx >= 0 /\ idx < Len(ph) THEN ph[idx + 1] ELSE null

\* mutant: the payload is built without the photo list
PayloadNoPhotos(f, sm, ph, px) ==
    [form |-> f, photo |-> sm, photos |-> <<>>, pxrf |-> px, createdAt |-> "now"]

\* the payload of the autosave effect
Payload(f, sm, ph, px) ==
    [form |-> f, photo |-> sm, photos |-> ph, pxrf |-> px, createdAt |-> "now"]

\* mutant: splice drops the last element, whatever the index
Splice1Last(ph, i) == SubSeq(ph, 1, Len(ph) - 1)

\* copy.splice(i, 1): the list without position i (0-based), unchanged when
\* i is past the end
Splice1(ph, i) ==
    IF i >= 0 /\ i < Len(ph) THEN SubSeq(ph, 1, i) \o SubSeq(ph, i + 2, Len(ph)) ELSE ph

\* the element splice(i, 1) removes, undefined when i is past the end
Spliced(ph, i) == IF i >= 0 /\ i < Len(ph) THEN ph[i + 1] ELSE undefined

\* mutant: the active index is left where it was
nextIdxKept(idx) == idx

\* nextIdx of the Delete photo handler
nextIdx(idx) == Max(0, idx - 1)

(***************************************************************************)
(* Inputs of the store-level specification                                 *)
(***************************************************************************)
\* identifiers a user can type: empty, plain, and one holding a colon
StoreIds == {<<>>, <<"a">>, <<"a", ":", "b">>}

\* the record as the form autosaves it (with the photo summary) and as the
\* earlier revisions save it (form and photos only)
SamplePayloads ==
    {[form |-> [sampleId |-> id, project |-> "", date |-> "d1"], photos |-> <<>>] :
        id \in StoreIds}
    \cup
    {[form |-> [sampleId |-> id, project |-> "P", date |-> "d2"], photos |-> <<"img">>,
      photo |-> "summary"] : id \in StoreIds}

\* a fresh borehole record, and one that was loaded and is saved again
BoreholeRecords ==
    {[holeId |-> id, project |-> "", intervals |-> <<>>] : id \in StoreIds}
    \cup
    {[holeId |-> id, project |-> "P", intervals |-> <<"iv">>, kind |-> "borehole"] :
        id \in StoreIds}

(***************************************************************************)
(* Store-level specification: tabs call the wrappers, transactions commit  *)
(***************************************************************************)
\* the values the variables of a component keep while another one is checked
IdleStore ==
    /\ store = <<>>
    /\ queue = [t \in Tabs |-> <<>>]
    /\ lastDone = <<>>
    /\ nOps = 0

IdleImage ==
    /\ image = [width |-> 1, height |-> 1]
    /\ canvas = [drawn |-> FALSE, width |-> 0, height |-> 0]

IdleColour ==
    /\ avgRGB = [r |-> 0, g |-> 0, b |-> 0]
    /\ hueUlp = 0
    /\ colourName = ""
    /\ ironish = FALSE

IdleCsv ==
    /\ csvRows = <<>>
    /\ csvStats = <<>>

IdleApp ==
    /\ form = makeDefaultForm
    /\ photos = <<>>
    /\ activeIdx = 0
    /\ summary = null
    /\ analysing = {}
    /\ pxrf = [rows |-> <<>>, summary |-> <<>>]
    /\ csvReading = {}
    /\ selections = <<>>
    /\ nSel = 0
    /\ savedList = <<>>
    /\ stale = [sels |-> {}, csvs |-> {}]

IdleExport ==
    /\ borehole = [id |-> <<"b">>, intervals |-> <<>>]
    /\ csvBlob = <<>>
    /\ reparsed = [done |-> FALSE, rows |-> <<>>]

IdleDoc ==
    /\ docForm = DefaultFields
    /\ docPhoto = [summary |-> null]
    /\ docCount = 0
    /\ docPxrf = <<>>
    /\ markdown = <<>>
    /\ quickDraft = <<>>

IdleDescribe ==
    /\ client = "part_003"
    /\ suggested = ""
    /\ aiBusy = FALSE
    /\ aiError = ""
    /\ reqs = <<>>
    /\ nReq = 0
    /\ uncaught = FALSE
    /\ lastReply = [kind |-> "none"]

InitStore ==
    /\ store = <<>>
    /\ queue = [t \in Tabs |-> <<>>]
    /\ lastDone = <<>>
    /\ nOps = 0
    /\ IdleImage /\ IdleColour /\ IdleCsv /\ IdleApp /\ IdleExport /\ IdleDoc /\ IdleDescribe /\ IdleBackend /\ IdleUpload

\* a wrapper call creates its transaction; a tab's transactions commit in the
\* order they were created
Submit(t, tx) ==
    /\ nOps < MaxOps
    /\ nOps' = nOps + 1
    /\ queue' = [queue EXCEPT ![t] = Append(@, tx)]
    /\ UNCHANGED <<store, lastDone, imageVars, colourVars, csvVars, appVars, exportVars, docVars, describeVars, backendVars, uploadVars>>

CallSaveSample(t) == \E p \in SamplePayloads : Submit(t, saveSample(p))

CallDeleteSample(t) == \E id \in StoreIds : Submit(t, deleteSample(id))

CallSaveOutcropLog(t) ==
    \E p \in SamplePayloads : ~saveOutcropLogThrows(p) /\ Submit(t, saveOutcropLog(p))

CallDeleteOutcropLog(t) == \E id \in StoreIds : Submit(t, deleteOutcropLog(id))

CallSaveBoreholeLog(t) ==
    \E bh \in BoreholeRecords : ~saveBoreholeLogThrows(bh) /\ Submit(t, saveBoreholeLog(bh))

CallDeleteBoreholeLog(t) == \E id \in StoreIds : Submit(t, deleteBoreholeLog(id))

\* mutant: a write moves the record, leaving no other record behind
ApplyMoving(st, tx) ==
    IF tx.op = "set" THEN [x \in {tx.key} |-> tx.val] ELSE del(st, tx.key)

\* the effect of one committed transaction on the database
Apply(st, tx) == IF tx.op = "set" THEN set(st, tx.key, tx.val) ELSE del(st, tx.key)

\* the call <<api, id>> has a transaction waiting in the queue q
Waiting(q, api, id) == \E i \in 1..Len(q) : q[i].api = api /\ q[i].id = id

\* history entry of a committed call: raced says that calls for the same
\* identifier have overlapped (one committed while another tab's was waiting)
Done(tx, t) ==
    LET c == <<tx.api, tx.id>>
    IN  [op |-> tx.op, arg |-> tx.arg,
         raced |-> \/ \E u \in Tabs \ {t} : Waiting(queue[u], tx.api, tx.id)
                   \/ (c \in DOMAIN lastDone /\ lastDone[c].raced)]

\* the oldest transaction of tab t commits
Commit(t) ==
    /\ queue[t] # <<>>
    /\ store' = Apply(store, Head(queue[t]))
    /\ lastDone' = set(lastDone, <<Head(queue[t]).api, Head(queue[t]).id>>,
                       Done(Head(queue[t]), t))
    /\ queue' = [queue EXCEPT ![t] = Tail(@)]
    /\ UNCHANGED <<nOps, imageVars, colourVars, csvVars, appVars, exportVars, docVars, describeVars, backendVars, uploadVars>>

\* Tab "this" calls every wrapper; tab "other" runs the form, which uses the
\* sample wrappers only.
NextStore ==
    \/ \E t \in Tabs : CallSaveSample(t)
    \/ \E t \in Tabs : CallDeleteSample(t)
    \/ CallSaveOutcropLog("this")
    \/ CallDeleteOutcropLog("this")
    \/ CallSaveBoreholeLog("this")
    \/ CallDeleteBoreholeLog("this")
    \/ \E t \in Tabs : Commit(t)

SpecStore == InitStore /\ [][NextStore]_vars

(***************************************************************************)
(* Downscale specification: an image of any size is decoded and drawn      *)
(***************************************************************************)
Dims ==
    {d \in 1..MaxImgDim :
        \/ d % DimStep = 0
        \/ d <= 1 + DimNear
        \/ Abs(d - maxDim) <= DimNear
        \/ Abs(d - 2 * maxDim) <= DimNear}

InitImage ==
    /\ image \in [width : Dims, height : Dims]
    /\ canvas = [drawn |-> FALSE, width |-> 0, height |-> 0]
    /\ IdleStore /\ IdleColour /\ IdleCsv /\ IdleApp /\ IdleExport /\ IdleDoc /\ IdleDescribe /\ IdleBackend /\ IdleUpload

\* img.onload of downscaleDataUrl
Downscale ==
    /\ ~canvas.drawn
    /\ canvas' = downscaleDataUrl(image)
    /\ UNCHANGED <<image, storeVars, colourVars, csvVars, appVars, exportVars, docVars, describeVars, backendVars, uploadVars>>

NextImage == Downscale

SpecImage == InitImage /\ [][NextImage]_vars

(***************************************************************************)
(* Colour specification: an averaged pixel is named                        *)
(***************************************************************************)
\* channel values where a value or saturation threshold falls
ChanMarks == {46, 66, 132, 198, 204}

Channels ==
    {c \in 0..255 : c % ChanStep = 0 \/ \E m \in ChanMarks : Abs(c - m) <= ChanNear}

InitColour ==
    /\ avgRGB \in [r : Channels, g : Channels, b : Channels]
    /\ hueUlp \in {Rounded(rgbToHsv(avgRGB.r, avgRGB.g, avgRGB.b), u).ulp : u \in Ulps}
    /\ colourName = ""
    /\ ironish = FALSE
    /\ IdleStore /\ IdleImage /\ IdleCsv /\ IdleApp /\ IdleExport /\ IdleDoc /\ IdleDescribe /\ IdleBackend /\ IdleUpload

\* img.onload of usePhotoAnalysis, from the averaged pixel on
Analyse ==
    /\ colourName = ""
    /\ LET hsv == Rounded(rgbToHsv(avgRGB.r, avgRGB.g, avgRGB.b), hueUlp)
       IN  /\ colourName' = hsvToRockColourName(hsv)
           /\ ironish' = Ironish(hsv)
    /\ UNCHANGED <<avgRGB, hueUlp, storeVars, imageVars, csvVars, appVars, exportVars, docVars, describeVars, backendVars, uploadVars>>

NextColour == Analyse

SpecColour == InitColour /\ [][NextColour]_vars

(***************************************************************************)
(* pXRF specification: parsed rows are summarized                          *)
(***************************************************************************)
Cells == UNION {[1..n -> CellChars] : n \in 0..MaxCellLen}

OnePointFive == <<"1", ".", "5">>

\* the column name suffixes pxrfStats looks up for an element
Suffixes == {"", "%", "_ppm", "_wt%"}

\* a first row whose Fe cell is any text or missing, or whose only column is
\* a Zn column with one of the suffixes; then no row or one more
CsvInputs ==
    {<<r>> \o rest :
        r \in {[Fe |-> c, Cu |-> OnePointFive] : c \in Cells}
               \cup {[Cu |-> c] : c \in Cells}
               \cup {[h \in {"Zn" \o sfx} |-> OnePointFive] : sfx \in Suffixes},
        rest \in {<<>>,
                  <<[Fe |-> OnePointFive, Cu |-> <<>>]>>,
                  <<[Fe |-> <<"5">>, Cu |-> <<".", "5">>]>>}}

InitCsv ==
    /\ csvRows \in CsvInputs
    /\ csvStats = <<>>
    /\ IdleStore /\ IdleImage /\ IdleColour /\ IdleApp /\ IdleExport /\ IdleDoc /\ IdleDescribe /\ IdleBackend /\ IdleUpload

\* reader.onload of onPxrfCSV, from the parsed rows on
Import ==
    /\ csvStats = <<>>
    /\ csvStats' = pxrfStats(csvRows)
    /\ UNCHANGED <<csvRows, storeVars, imageVars, colourVars, appVars, exportVars, docVars, describeVars, backendVars, uploadVars>>

NextCsv == Import

SpecCsv == InitCsv /\ [][NextCsv]_vars

(***************************************************************************)
(* CSV export specification: a borehole log is exported and the text read  *)
(* back with parseCSV                                                      *)
(***************************************************************************)
\* the characters field texts are made of
FieldChars == {"a", ",", "\"", " ", "\n"}

FieldTexts == UNION {[1..n -> FieldChars] : n \in 0..MaxFieldLen}

\* a first interval with any text as unit or as description, then no
\* interval or one more
BoreholeLogs ==
    {[id |-> <<"b">>, intervals |-> <<iv>> \o rest] :
        iv \in {[from |-> <<"1">>, to |-> <<"2">>, unit |-> t, description |-> <<"a">>,
                 notes |-> <<>>] : t \in FieldTexts}
               \cup {[from |-> <<"1">>, unit |-> <<"a">>, description |-> t] : t \in FieldTexts},
        rest \in {<<>>,
                  <<[from |-> <<"2">>, to |-> <<"a">>, unit |-> <<"a", ",", "a">>,
                     description |-> <<"a", "\"", ",">>, notes |-> <<"a">>]>>}}
    \cup {[id |-> <<"b">>, intervals |-> <<>>]}

InitExport ==
    /\ borehole \in BoreholeLogs
    /\ csvBlob = <<>>
    /\ reparsed = [done |-> FALSE, rows |-> <<>>]
    /\ IdleStore /\ IdleImage /\ IdleColour /\ IdleCsv /\ IdleApp /\ IdleDoc /\ IdleDescribe /\ IdleBackend /\ IdleUpload

\* exportBoreholeCSV(bh) is called
Export ==
    /\ csvBlob = <<>>
    /\ csvBlob' = exportBoreholeCSV(borehole)
    /\ UNCHANGED <<borehole, reparsed, storeVars, imageVars, colourVars, csvVars, appVars, docVars, describeVars, backendVars, uploadVars>>

\* the exported text is parsed
Reparse ==
    /\ csvBlob # <<>>
    /\ ~reparsed.done
    /\ reparsed' = [done |-> TRUE, rows |-> parseCSV(csvBlob)]
    /\ UNCHANGED <<borehole, csvBlob, storeVars, imageVars, colourVars, csvVars, appVars, docVars, describeVars, backendVars, uploadVars>>

NextExport == Export \/ Reparse

SpecExport == InitExport /\ [][NextExport]_vars

(***************************************************************************)
(* Document specification: a form, a photo analysis and a pXRF summary are *)
(* given to generateMarkdown and to buildSuggestedText                     *)
(***************************************************************************)
\* the fields a user can leave or make empty: text inputs and tick lists
\* (the selects always hold one of their options)
TextFields ==
    {"project", "sampleId", "date", "lat", "lon", "elevation", "colourFresh",
     "colourWeathered", "grainSize", "hardness", "streak", "sg", "fabricNotes",
     "mineralizationNotes", "structures", "hostUnit", "sampleLength_m", "pxrf", "notes"}

ListFields == {"alteration", "minerals", "sulfides"}

EmptyOf(field) == IF field \in ListFields THEN <<>> ELSE ""

\* the filled form with the fields of S emptied
Emptied(S) == [k \in DOMAIN FilledFields |-> IF k \in S THEN EmptyOf(k) ELSE FilledFields[k]]

DocForms ==
    {Emptied(S) : S \in {T \in SUBSET (TextFields \cup ListFields) : Cardinality(T) <= MaxEmpty}}
    \cup {[FilledFields EXCEPT !.category = c] : c \in ENUMS_category}
    \cup {[DefaultFields EXCEPT !.category = c] : c \in ENUMS_category}

DocPhotos ==
    {[summary |-> null],
     [summary |-> [primaryColourName |-> "red", ironish |-> TRUE]],
     [summary |-> [primaryColourName |-> "grey", ironish |-> FALSE]]}

\* {} before any import, then what pxrfStats gave for a file
DocPxrfSummaries ==
    {<<>>, pxrfStats(<<>>), pxrfStats(<<[Fe |-> OnePointFive, Cu |-> <<>>]>>)}

InitDoc ==
    /\ docForm \in DocForms
    /\ docPhoto \in DocPhotos
    /\ docCount \in {0, 2}
    /\ docPxrf \in DocPxrfSummaries
    /\ markdown = <<>>
    /\ quickDraft = <<>>
    /\ IdleStore /\ IdleImage /\ IdleColour /\ IdleCsv /\ IdleApp /\ IdleExport /\ IdleDescribe /\ IdleBackend /\ IdleUpload

\* exportMarkdown
ExportMarkdown ==
    /\ markdown = <<>>
    /\ markdown' = generateMarkdown(docForm, docPhoto, docCount, docPxrf)
    /\ UNCHANGED <<docForm, docPhoto, docCount, docPxrf, quickDraft,
                   storeVars, imageVars, colourVars, csvVars, appVars, exportVars,
                   describeVars, backendVars, uploadVars>>

\* the quick draft button: setSuggested(buildSuggestedText(form, photo))
QuickDraft ==
    /\ quickDraft = <<>>
    /\ quickDraft' = buildSuggestedText(docForm, docPhoto)
    /\ UNCHANGED <<docForm, docPhoto, docCount, docPxrf, markdown,
                   storeVars, imageVars, colourVars, csvVars, appVars, exportVars,
                   describeVars, backendVars, uploadVars>>

NextDoc == ExportMarkdown \/ QuickDraft

SpecDoc == InitDoc /\ [][NextDoc]_vars

(***************************************************************************)
(* Description request specification: the Generate button of either        *)
(* revision of the client, the backend's reply in two steps (headers, then *)
(* body), and the quick draft button that also sets the narrative text     *)
(***************************************************************************)
Clients == {"App.jsx", "part_003"}

\* what the backend or a proxy can answer
Replies ==
    {[status |-> 200, json |-> TRUE, text |-> "json", data |-> d] :
        d \in {[description |-> "d"], [text |-> "t"], [description |-> "", text |-> "t"],
               [model |-> "m"]}}
    \cup {[status |-> 500, json |-> TRUE, text |-> "json", data |-> [error |-> "e"]],
          [status |-> 502, json |-> FALSE, text |-> "", data |-> undefined],
          [status |-> 200, json |-> FALSE, text |-> "<html>", data |-> undefined]}

\* no reply: the request ended before any headers came
NoReply == [status |-> 0, json |-> FALSE, text |-> "", data |-> undefined]

InitDescribe ==
    /\ client \in Clients
    /\ suggested = ""
    /\ aiBusy = FALSE
    /\ aiError = ""
    /\ reqs = <<>>
    /\ nReq = 0
    /\ uncaught = FALSE
    /\ lastReply = [kind |-> "none"]
    /\ IdleStore /\ IdleImage /\ IdleColour /\ IdleCsv /\ IdleApp /\ IdleExport /\ IdleDoc /\ IdleBackend /\ IdleUpload

DescribeFrame ==
    UNCHANGED <<storeVars, imageVars, colourVars, csvVars, appVars, exportVars, docVars,
                backendVars, uploadVars>>

\* the list without its element i
Without(q, i) == SubSeq(q, 1, i - 1) \o SubSeq(q, i + 1, Len(q))

\* the quick draft button
QuickDraftClick ==
    /\ suggested # JoinStrings(buildSuggestedText(DefaultFields, [summary |-> null]), " ")
    /\ suggested' = JoinStrings(buildSuggestedText(DefaultFields, [summary |-> null]), " ")
    /\ lastReply' = [kind |-> "none"]
    /\ UNCHANGED <<client, aiBusy, aiError, reqs, nReq, uncaught>>
    /\ DescribeFrame

\* the Generate button (disabled while aiBusy): generateDescription runs up
\* to its fetch
Generate ==
    /\ ~aiBusy
    /\ nReq < MaxRequests
    /\ nReq' = nReq + 1
    /\ reqs' = Append(reqs, [phase |-> "fetch"])
    /\ IF client = "part_003"
       THEN aiError' = "" /\ aiBusy' = TRUE
       ELSE UNCHANGED <<aiError, aiBusy>>
    /\ lastReply' = [kind |-> "none"]
    /\ UNCHANGED <<client, suggested, uncaught>>
    /\ DescribeFrame

\* what follows an exception thrown in generateDescription: part_003 catches
\* it, shows its message and clears the busy flag; App.jsx has no try
Thrown(err, kind, reply) ==
    /\ IF client = "part_003"
       THEN /\ aiError' = CaughtMessage(err)
            /\ aiBusy' = FALSE
            /\ UNCHANGED uncaught
       ELSE /\ uncaught' = TRUE
            /\ UNCHANGED <<aiError, aiBusy>>
    /\ lastReply' = [kind |-> kind, prior |-> suggested, reply |-> reply]
    /\ UNCHANGED <<client, suggested, nReq>>

\* fetch rejects: the network failed before any headers
NetworkError ==
    \E i \in 1..Len(reqs) :
        /\ reqs[i].phase = "fetch"
        /\ reqs' = Without(reqs, i)
        /\ Thrown(Error("Failed to fetch"), "failed", NoReply)
        /\ DescribeFrame

\* part_003: the 25 s timer fires while fetch is pending and aborts it
Timeout ==
    \E i \in 1..Len(reqs) :
        /\ client = "part_003"
        /\ reqs[i].phase = "fetch"
        /\ reqs' = Without(reqs, i)
        /\ Thrown(Error("The user aborted a request."), "failed", NoReply)
        /\ DescribeFrame

\* fetch resolves with the headers of a reply (part_003 clears its timer)
Headers ==
    \E i \in 1..Len(reqs), reply \in Replies :
        /\ reqs[i].phase = "fetch"
        /\ reqs' = [reqs EXCEPT ![i] = [phase |-> "body", reply |-> reply]]
        /\ lastReply' = [kind |-> "none"]
        /\ UNCHANGED <<client, suggested, aiBusy, aiError, nReq, uncaught>>
        /\ DescribeFrame

\* the body has arrived: the rest of generateDescription runs
Body ==
    \E i \in 1..Len(reqs) :
        LET reply == reqs[i].reply
        IN  /\ reqs[i].phase = "body"
            /\ reqs' = Without(reqs, i)
            /\ IF client = "part_003"
               THEN IF ~ResOk(reply)
                    THEN Thrown(Error(HttpErrorMessage(reply)), "failed", reply)
                    ELSE IF ~reply.json
                    THEN Thrown(Error("Unexpected token"), "unparsed", reply)
                    ELSE /\ suggested' = ShownText(reply.data)
                         /\ aiBusy' = FALSE
                         /\ lastReply' = [kind |-> "success", prior |-> suggested,
                                          reply |-> reply]
                         /\ UNCHANGED <<client, aiError, nReq, uncaught>>
               ELSE \* res.json(), then setDescription, which is not defined
                    IF ~reply.json
                    THEN Thrown(Error("Unexpected token"),
                                IF ResOk(reply) THEN "unparsed" ELSE "failed", reply)
                    ELSE Thrown(Error("setDescription is not defined"),
                                IF ResOk(reply) THEN "success" ELSE "failed", reply)
            /\ DescribeFrame

\* the connection breaks while the body is read: res.text() or res.json()
\* rejects
BodyError ==
    \E i \in 1..Len(reqs) :
        /\ reqs[i].phase = "body"
        /\ reqs' = Without(reqs, i)
        /\ Thrown(Error("Failed to fetch"), "failed", NoReply)
        /\ DescribeFrame

NextDescribe ==
    \/ QuickDraftClick
    \/ Generate
    \/ NetworkError
    \/ Timeout
    \/ Headers
    \/ Body
    \/ BodyError

SpecDescribe == InitDescribe /\ [][NextDescribe]_vars

\* The same with the timer of part_003 as the only thing that is sure to
\* happen: while a fetch stays pending the 25 s timer fires; whether and when
\* the backend answers is left open
SpecDescribeFair == SpecDescribe /\ WF_vars(Timeout)

(***************************************************************************)
(* Backend specification: one revision of the handler is deployed, with or *)
(* without a key; requests come one after the other, and the provider      *)
(* answers, or cannot be reached, for each call made to it                 *)
(***************************************************************************)
ReqBodies == {"{", "", "{}", "{form}"}

ErrStatuses == {401, 404, 429, 500, 503}

BodyLens == {0, 7, sliceLimit, sliceLimit + 1}

ErrBodies == {[id |-> "b", len |-> n] : n \in BodyLens}

ProviderReplies ==
    {[status |-> 200, json |-> TRUE, body |-> [id |-> "completion", len |-> 7], content |-> c] :
        c \in {"d", ""}}
    \cup {[status |-> 200, json |-> FALSE, body |-> [id |-> "<html>", len |-> 7], content |-> ""]}
    \cup {[status |-> s, json |-> FALSE, body |-> b, content |-> ""] :
            s \in ErrStatuses, b \in ErrBodies}

\* the models array: as it is in part_002, and with "gpt-5" put first as the
\* comment above it proposes
ModelLists == {models, <<"gpt-5">> \o models}

InitBackend ==
    /\ server \in Servers
    /\ modelList \in (IF server = "part_002:4" THEN ModelLists ELSE {models})
    /\ OPENAI_API_KEY \in {"", "sk"}
    /\ inFlight = NoCall
    /\ answered = NoAnswer
    /\ nServed = 0
    /\ IdleStore /\ IdleImage /\ IdleColour /\ IdleCsv /\ IdleApp /\ IdleExport /\ IdleDoc
    /\ IdleDescribe /\ IdleUpload

BackendFrame ==
    UNCHANGED <<storeVars, imageVars, colourVars, csvVars, appVars, exportVars, docVars,
                describeVars, uploadVars>>

\* POST /api/describe with the body raw: the handler up to its answer or its call
Post ==
    \E raw \in ReqBodies :
        /\ ~inFlight.waiting
        /\ nServed < MaxServed
        /\ nServed' = nServed + 1
        /\ \E a \in BeforeCall(server, OPENAI_API_KEY, raw) :
            IF a = Await
            THEN /\ inFlight' = [waiting |-> TRUE, body |-> raw, i |-> 1, calls |-> <<>>]
                 /\ answered' = NoAnswer
            ELSE /\ inFlight' = NoCall
                 /\ answered' = Answer("POST", raw, FALSE, NoUpstream, a)
        /\ UNCHANGED <<server, modelList, OPENAI_API_KEY>>
        /\ BackendFrame

\* any other method on /api/describe
NotPost ==
    /\ ~inFlight.waiting
    /\ nServed < MaxServed
    /\ nServed' = nServed + 1
    /\ answered' = Answer("GET", "", FALSE, NoUpstream, NotPostAnswer(server))
    /\ UNCHANGED <<server, modelList, OPENAI_API_KEY, inFlight>>
    /\ BackendFrame

\* the call to the provider settles, with a reply or with a rejection (NoUpstream):
\* the rest of the handler
ProviderSettles ==
    \E r \in ProviderReplies \cup {NoUpstream} :
        /\ inFlight.waiting
        /\ LET a == AfterCall(server, modelList, inFlight.i, r)
               calls == Append(inFlight.calls, [i |-> inFlight.i, reply |-> r])
           IN  IF a = Await
               THEN /\ inFlight' = [inFlight EXCEPT !.i = @ + 1, !.calls = calls]
                    /\ UNCHANGED answered
               ELSE /\ inFlight' = NoCall
                    /\ answered' = [Answer("POST", inFlight.body, TRUE, r, a)
                                       EXCEPT !.calls = calls]
        /\ UNCHANGED <<server, modelList, OPENAI_API_KEY, nServed>>
        /\ BackendFrame

NextBackend ==
    \/ Post
    \/ NotPost
    \/ ProviderSettles

SpecBackend == InitBackend /\ [][NextBackend]_vars

(***************************************************************************)
(* Upload specification (part_003): the user selects files, some of which  *)
(* do not decode as images; reads and decodes complete in any order        *)
(***************************************************************************)
NewFile(d) == [decodable |-> d, stage |-> "reading"]

FileLists ==
    {<<NewFile(d)>> : d \in BOOLEAN}
    \cup {<<NewFile(d), NewFile(e)>> : d \in BOOLEAN, e \in BOOLEAN}

InitUpload ==
    /\ uploads = <<>>
    /\ upPhotos = <<>>
    /\ upActive = 0
    /\ nUp = 0
    /\ IdleStore /\ IdleImage /\ IdleColour /\ IdleCsv /\ IdleApp /\ IdleExport /\ IdleDoc
    /\ IdleDescribe /\ IdleBackend

UploadFrame ==
    UNCHANGED <<storeVars, imageVars, colourVars, csvVars, appVars, exportVars, docVars,
                describeVars, backendVars>>

\* onFile: the files of the selection start to be read
SelectFiles ==
    \E fl \in FileLists :
        /\ nUp < MaxSelections
        /\ nUp' = nUp + 1
        /\ uploads' = Append(uploads, [files |-> fl, appended |-> FALSE])
        /\ UNCHANGED <<upPhotos, upActive>>
        /\ UploadFrame

\* fr.onload: downscaleDataUrl is called and sets img.src
ReaderLoaded ==
    \E sel \in DOMAIN uploads :
        \E i \in DOMAIN uploads[sel].files :
            /\ uploads[sel].files[i].stage = "reading"
            /\ uploads' = [uploads EXCEPT ![sel].files[i].stage = "decoding"]
            /\ UNCHANGED <<upPhotos, upActive, nUp>>
            /\ UploadFrame

\* img.onload of downscaleDataUrl: the data URL of the canvas resolves the
\* file's promise; the last one of a selection resolves Promise.all, whose
\* callback appends the selection's photos
ImageLoaded ==
    \E sel \in DOMAIN uploads :
        \E i \in DOMAIN uploads[sel].files :
            LET files == [uploads[sel].files EXCEPT ![i].stage = "done"]
            IN  /\ uploads[sel].files[i].stage = "decoding"
                /\ Resolves(uploads[sel].files[i])
                /\ uploads' = [uploads EXCEPT ![sel] = [files |-> files, appended |-> AllDone(files)]]
                /\ IF AllDone(files)
                   THEN /\ upPhotos' = Appended(upPhotos, sel, files)
                        /\ upActive' = IF Len(upPhotos) = 0 THEN 0 ELSE upActive
                   ELSE UNCHANGED <<upPhotos, upActive>>
                /\ UNCHANGED nUp
                /\ UploadFrame

NextUpload ==
    \/ SelectFiles
    \/ ReaderLoaded
    \/ ImageLoaded

SpecUpload == InitUpload /\ [][NextUpload]_vars

(***************************************************************************)
(* Form specification: one tab runs the App against the store              *)
(***************************************************************************)
\* the identifier typed into the Sample ID field
TypedIds == {<<"a">>}

\* the user selects one file or two at a time
FileCounts == {1, 2}

\* CSV files the user imports, as parsed rows
PxrfFiles ==
    {<<[Fe |-> OnePointFive, Cu |-> <<"5">>]>>,
     <<[Fe |-> <<"5">>, Cu |-> <<>>], [Fe |-> <<"x">>, Cu |-> OnePointFive]>>}

InitApp ==
    /\ store = <<>>
    /\ lastDone = <<>>
    /\ nOps = 0
    /\ form = makeDefaultForm
    /\ photos = <<>>
    /\ activeIdx = 0
    /\ summary = null
    /\ analysing = {}
    /\ pxrf = [rows |-> <<>>, summary |-> <<>>]
    /\ csvReading = {}
    /\ selections = <<>>
    /\ nSel = 0
    /\ savedList = <<>>
    /\ stale = [sels |-> {}, csvs |-> {}]
    \* the autosave effect has run once on mount
    /\ queue = [t \in Tabs |->
                  IF t = "this"
                  THEN <<saveSample(Payload(makeDefaultForm, null, <<>>,
                                            [rows |-> <<>>, summary |-> <<>>]))>>
                  ELSE <<>>]
    /\ IdleImage /\ IdleColour /\ IdleCsv /\ IdleExport /\ IdleDoc /\ IdleDescribe /\ IdleBackend /\ IdleUpload

AppFrame == UNCHANGED <<imageVars, colourVars, csvVars, exportVars, docVars, describeVars, backendVars, uploadVars>>

\* One render after the setters of a handler have run, with its effects.
\* f, ph, idx, px are the new form, photo list, active index and pXRF data;
\* sm is the new photo summary when the handler set one (else the old one);
\* changed says that a dependency of the autosave effect got a new value;
\* q is the tab's queue after the handler.  The analysis effect runs first:
\* a new active src starts an image load, no active src clears the summary,
\* which renders once more and autosaves again.
Render(f, ph, idx, sm, px, changed, q) ==
    LET oldSrc == ActiveSrc(photos, activeIdx)
        newSrc == ActiveSrc(ph, idx)
        sm2 == IF newSrc # oldSrc /\ newSrc = null THEN null ELSE sm
        q1 == IF changed THEN Append(q, saveSample(Payload(f, sm, ph, px))) ELSE q
        q2 == IF sm2 # sm THEN Append(q1, saveSample(Payload(f, sm2, ph, px))) ELSE q1
    IN  /\ form' = f
        /\ photos' = ph
        /\ activeIdx' = idx
        /\ pxrf' = px
        /\ summary' = sm2
        /\ analysing' = IF newSrc # oldSrc /\ newSrc # null
                         THEN analysing \cup {newSrc} ELSE analysing
        /\ queue' = [queue EXCEPT !["this"] = q2]

\* a user action is counted; the user acts while the tab's queue is short
Step ==
    /\ nOps < MaxSteps
    /\ Len(queue["this"]) < MaxQueue
    /\ nOps' = nOps + 1

\* update(k, v) from an input's onChange
Update(k, v) ==
    /\ Step
    /\ form[k] # v
    /\ Render([form EXCEPT ![k] = v], photos, activeIdx, summary, pxrf, TRUE, queue["this"])
    /\ UNCHANGED <<store, lastDone, csvReading, selections, nSel, savedList, stale>>
    /\ AppFrame

UpdateSampleId == \E v \in TypedIds \cup {generateSampleId} : Update("sampleId", v)

UpdateProject == \E v \in {"", "P"} : Update("project", v)

\* onFile: n files are selected and their reads start
OnFile ==
    \E n \in FileCounts :
        /\ Step
        /\ nSel' = nSel + 1
        /\ selections' = set(selections, nSel + 1, [files |-> n, read |-> {}])
        /\ UNCHANGED <<store, queue, lastDone, form, photos, activeIdx, summary,
                       analysing, pxrf, csvReading, savedList, stale>>
        /\ AppFrame

\* the data URLs of selection sel, in file order
DataUrls(sel) == [i \in 1..selections[sel].files |-> [sel |-> sel, file |-> i]]

\* fr.onload of file i of selection sel; the last read of a selection
\* resolves Promise.all, whose callback appends the photos
FileRead ==
    \E sel \in DOMAIN selections :
        \E i \in (1..selections[sel].files) \ selections[sel].read :
            /\ IF selections[sel].read \cup {i} = 1..selections[sel].files
               THEN /\ selections' = del(selections, sel)
                    /\ Render(form, photos \o DataUrls(sel),
                              IF Len(photos) = 0 THEN 0 ELSE activeIdx,
                              summary, pxrf, TRUE, queue["this"])
               ELSE /\ selections' = [selections EXCEPT ![sel].read = @ \cup {i}]
                    /\ UNCHANGED <<form, photos, activeIdx, pxrf, summary, analysing, queue>>
            /\ stale' = [stale EXCEPT !.sels = @ \cap DOMAIN selections']
            /\ UNCHANGED <<store, lastDone, nOps, csvReading, nSel, savedList>>
            /\ AppFrame

\* a thumbnail is clicked
SelectThumb ==
    \E i \in 0..(Len(photos) - 1) :
        /\ Step
        /\ i # activeIdx
        /\ Render(form, photos, i, summary, pxrf, FALSE, queue["this"])
        /\ UNCHANGED <<store, lastDone, csvReading, selections, nSel, savedList, stale>>
        /\ AppFrame

\* Set as primary (shown while the list is not empty); with the first photo
\* active the updater returns prev and nothing changes
SetPrimary ==
    /\ Step
    /\ Len(photos) > 0
    /\ activeIdx # 0
    /\ Render(form, <<Spliced(photos, activeIdx)>> \o Splice1(photos, activeIdx), 0,
              summary, pxrf, TRUE, queue["this"])
    /\ UNCHANGED <<store, lastDone, csvReading, selections, nSel, savedList, stale>>
    /\ AppFrame

\* Delete photo (shown while the list is not empty)
DeletePhoto ==
    /\ Step
    /\ Len(photos) > 0
    /\ Render(form, Splice1(photos, activeIdx), nextIdx(activeIdx),
              summary, pxrf, TRUE, queue["this"])
    /\ UNCHANGED <<store, lastDone, csvReading, selections, nSel, savedList, stale>>
    /\ AppFrame

\* img.onload of the analysis of src
AnalysisDone ==
    \E src \in analysing :
        /\ analysing' = analysing \ {src}
        /\ summary' = [of |-> src]
        /\ queue' = [queue EXCEPT !["this"] =
                         Append(@, saveSample(Payload(form, [of |-> src], photos, pxrf)))]
        /\ UNCHANGED <<store, lastDone, nOps, form, photos, activeIdx, pxrf,
                       csvReading, selections, nSel, savedList, stale>>
        /\ AppFrame

\* onPxrfCSV: a CSV file is chosen and its read starts
OnPxrfCSV ==
    \E rows \in PxrfFiles :
        /\ Step
        /\ csvReading' = csvReading \cup {rows}
        /\ UNCHANGED <<store, queue, lastDone, form, photos, activeIdx, summary,
                       analysing, pxrf, selections, nSel, savedList>>
        /\ stale' = [stale EXCEPT !.csvs = @ \ {rows}]
        /\ AppFrame

\* reader.onload of a CSV read: rows and summary are replaced
CsvRead ==
    \E rows \in csvReading :
        /\ csvReading' = csvReading \ {rows}
        /\ Render(form, photos, activeIdx, summary,
                  [rows |-> rows, summary |-> pxrfStats(rows)], TRUE, queue["this"])
        /\ stale' = [stale EXCEPT !.csvs = @ \ {rows}]
        /\ UNCHANGED <<store, lastDone, nOps, selections, nSel, savedList>>
        /\ AppFrame

\* New Sample
resetForm ==
    /\ Step
    /\ Render(makeDefaultForm, <<>>, 0, summary, [rows |-> <<>>, summary |-> <<>>], TRUE,
              queue["this"])
    /\ stale' = [sels |-> DOMAIN selections, csvs |-> csvReading]
    /\ UNCHANGED <<store, lastDone, csvReading, selections, nSel, savedList>>
    /\ AppFrame

\* store requests of the App that write nothing
ReadTx(op, id) == Tx(op, key(id), undefined, "sample", id, undefined)

\* the Saved button: refreshSaved starts
OpenSaved ==
    /\ Step
    /\ queue' = [queue EXCEPT !["this"] = Append(@, ReadTx("list", <<>>))]
    /\ UNCHANGED <<store, lastDone, form, photos, activeIdx, summary, analysing,
                   pxrf, csvReading, selections, nSel, savedList, stale>>
    /\ AppFrame

\* Open on a row of the list shown: loadDraft starts
OpenDraft ==
    \E k \in DOMAIN savedList :
        /\ Step
        /\ queue' = [queue EXCEPT !["this"] = Append(@, ReadTx("get", savedList[k].id))]
        /\ UNCHANGED <<store, lastDone, form, photos, activeIdx, summary, analysing,
                       pxrf, csvReading, selections, nSel, savedList, stale>>
        /\ AppFrame

\* Delete on a row of the list shown: deleteSample starts, refreshSaved
\* follows when it has completed
DeleteDraft ==
    \E k \in DOMAIN savedList :
        /\ Step
        /\ queue' = [queue EXCEPT !["this"] =
                         Append(@, Spread(deleteSample(savedList[k].id), "then", "refreshSaved"))]
        /\ UNCHANGED <<store, lastDone, form, photos, activeIdx, summary, analysing,
                       pxrf, csvReading, selections, nSel, savedList, stale>>
        /\ AppFrame

\* the oldest write of the tab commits; a delete from the modal goes on to
\* refreshSaved
CommitWrite ==
    LET tx == Head(queue["this"])
    IN  /\ queue["this"] # <<>>
        /\ tx.op \in {"set", "del"}
        /\ store' = Apply(store, tx)
        /\ lastDone' = set(lastDone, <<tx.api, tx.id>>, Done(tx, "this"))
        /\ queue' = [queue EXCEPT !["this"] =
                         IF "then" \in DOMAIN tx
                         THEN Append(Tail(@), ReadTx("list", <<>>))
                         ELSE Tail(@)]
        /\ UNCHANGED <<nOps, appVars>>
        /\ AppFrame

\* listSamples of refreshSaved completes: the list shown is replaced, or
\* stays as it was when listSamples rejects
CommitList ==
    LET tx == Head(queue["this"])
    IN  /\ queue["this"] # <<>>
        /\ tx.op = "list"
        /\ savedList' = IF listSamples(store).ok THEN listSamples(store).rows ELSE savedList
        /\ queue' = [queue EXCEPT !["this"] = Tail(@)]
        /\ UNCHANGED <<store, lastDone, nOps, form, photos, activeIdx, summary,
                       analysing, pxrf, csvReading, selections, nSel, stale>>
        /\ AppFrame

\* s.pxrf?.rows || [] and s.pxrf?.summary || {}
PxrfOf(s) == IF "pxrf" \in DOMAIN s THEN s.pxrf ELSE [rows |-> <<>>, summary |-> <<>>]

\* loadSample of loadDraft completes: nothing happens for an absent record,
\* else the form, the photos and the pXRF data are replaced
CommitLoad ==
    LET tx == Head(queue["this"])
        s == loadSample(store, tx.id)
    IN  /\ queue["this"] # <<>>
        /\ tx.op = "get"
        /\ IF s = undefined
           THEN /\ queue' = [queue EXCEPT !["this"] = Tail(@)]
                /\ UNCHANGED <<form, photos, activeIdx, pxrf, summary, analysing>>
           ELSE Render(s.form, PhotosOf(s), 0, summary, PxrfOf(s), TRUE, Tail(queue["this"]))
        /\ UNCHANGED <<store, lastDone, nOps, csvReading, selections, nSel, savedList, stale>>
        /\ AppFrame

NextApp ==
    \/ UpdateSampleId
    \/ UpdateProject
    \/ OnFile
    \/ FileRead
    \/ SelectThumb
    \/ SetPrimary
    \/ DeletePhoto
    \/ AnalysisDone
    \/ OnPxrfCSV
    \/ CsvRead
    \/ resetForm
    \/ OpenSaved
    \/ OpenDraft
    \/ DeleteDraft
    \/ CommitWrite
    \/ CommitList
    \/ CommitLoad

SpecApp == InitApp /\ [][NextApp]_vars

(***************************************************************************)
(* Claims about the store                                                  *)
(***************************************************************************)
\* load(id) through the wrapper of one namespace
LoadBy(api, st, id) ==
    CASE api = "sample" -> loadSample(st, id)
      [] api = "outcrop" -> loadOutcropLog(st, id)
      [] api = "borehole" -> loadBoreholeLog(st, id)

\* the calls that committed last on their identifier and were saves
LastSaves == {c \in DOMAIN lastDone : lastDone[c].op = "set"}

\* C1 (as stated): after save(r), load by r's identifier returns a record equal
\* to r in every field, in the sample, outcrop and borehole stores alike.
C1_RoundTripAllStores ==
    \A c \in LastSaves : LoadBy(c[1], store, c[2]) = lastDone[c].arg

\* C1 (amended): after save(r), load by r's identifier returns r itself in the
\* sample store; in the outcrop and borehole stores it returns r with the field
\* kind set to the store's name ("outcrop", "borehole") and every other field
\* of r unchanged, no further field added or dropped.
C1_RoundTripUpToKind ==
    \A c \in LastSaves :
        LET r == lastDone[c].arg
            got == LoadBy(c[1], store, c[2])
        IN  IF c[1] = "sample"
            THEN got = r
            ELSE /\ DOMAIN got = (DOMAIN r) \cup {"kind"}
                 /\ got.kind = c[1]
                 /\ \A f \in (DOMAIN r) \ {"kind"} : got[f] = r[f]

\* C1 witness: an outcrop or borehole record saved under an identifier with a
\* colon has been written and loads back with its fields.
C1_Witness ==
    \E c \in LastSaves :
        /\ c[1] = "outcrop"
        /\ c[2] = <<"a", ":", "b">>
        /\ "kind" \notin DOMAIN lastDone[c].arg
        /\ LoadBy(c[1], store, c[2]).kind = "outcrop"
        /\ LoadBy(c[1], store, c[2]).form = lastDone[c].arg.form

\* the identifiers of the summaries a list result holds
ListedIds(result) == {result.rows[k].id : k \in DOMAIN result.rows}

\* C2: once delete(id) has committed (and no save of id after it), loading id
\* from the sample store returns an absent result and a list of the sample
\* store holds no summary with that id.
C2_DeletedIsGone ==
    \A c \in DOMAIN lastDone :
        (c[1] = "sample" /\ lastDone[c].op = "del")
            => /\ loadSample(store, c[2]) = undefined
               /\ c[2] \notin ListedIds(listSamples(store))

\* C2 witness: a sample record was stored, its delete has committed, and the
\* list of the remaining records succeeds and is not empty.
C2_Witness ==
    \E c \in DOMAIN lastDone :
        /\ c[1] = "sample" /\ lastDone[c].op = "del"
        /\ listSamples(store).ok
        /\ ListedIds(listSamples(store)) # {}

\* C3: when no call for a sample identifier is still in flight in any tab, the
\* store holds under its key exactly what the call that committed last did:
\* that save's payload, whole and with nothing of an earlier payload, or no
\* record when that call was a delete.
C3_LastWriteWinsWhole ==
    \A c \in DOMAIN lastDone :
        (c[1] = "sample" /\ \A t \in Tabs : ~Waiting(queue[t], c[1], c[2]))
            => IF lastDone[c].op = "set"
               THEN key(c[2]) \in DOMAIN store /\ store[key(c[2])] = lastDone[c].arg
               ELSE key(c[2]) \notin DOMAIN store

\* C3 witness: calls from two tabs for one sample identifier overlapped, all
\* have committed, and the last to commit was a save with fewer fields than
\* an earlier payload could have left behind.
C3_Witness ==
    \E c \in DOMAIN lastDone :
        /\ c[1] = "sample" /\ lastDone[c].raced /\ lastDone[c].op = "set"
        /\ \A t \in Tabs : ~Waiting(queue[t], c[1], c[2])
        /\ "photo" \notin DOMAIN store[key(c[2])]

\* the identifier a key of the namespace was saved under
SavedId(k, prefix) == SubSeq(k, Len(prefix) + 1, Len(k))

\* the summary list() is to give for the record r saved under id
SummaryOf(id, r) ==
    [id |-> id, project |-> OrElse(r.form.project, "-"), date |-> r.form.date,
     hasPhotos |-> Len(PhotosOf(r)) > 0]

\* result is a list with exactly one summary per record of the namespace,
\* carrying the record's identifier, project, date and has-photos flag
ListsExactly(result, prefix) ==
    /\ result.ok
    /\ \A k \in FilterKeys(store, prefix) :
          LET want == SummaryOf(SavedId(k, prefix), store[k])
              hits == {j \in DOMAIN result.rows : result.rows[j].id = want.id}
          IN  /\ Cardinality(hits) = 1
              /\ \A j \in hits : \A f \in DOMAIN want : result.rows[j][f] = want[f]
    /\ \A j \in DOMAIN result.rows :
          \E k \in FilterKeys(store, prefix) : result.rows[j].id = SavedId(k, prefix)

\* C5 (as stated): list() does not fail and returns exactly one summary for
\* each record stored under the namespace prefix, none for another namespace,
\* each with the identifier the record was saved under and its project, date
\* and has-photos flag, for every identifier a user can type.
C5_ListExact ==
    /\ ListsExactly(listSamples(store), samplePrefix)
    /\ ListsExactly(listOutcropLogs(store), outcropPrefix)

(***************************************************************************)
(* Claims about the form                                                   *)
(***************************************************************************)
\* a save or delete of the tab is still waiting
WritePending == \E i \in 1..Len(queue["this"]) : queue["this"][i].op \in {"set", "del"}

\* the call that committed last for the form's current identifier was a save
CurrentSaved ==
    /\ <<"sample", form.sampleId>> \in DOMAIN lastDone
    /\ lastDone[<<"sample", form.sampleId>>].op = "set"

\* C4: after any sequence of form edits, photo additions, reorders and
\* deletions and pXRF imports (and New Sample and opening a draft), once no
\* save is pending, the record stored under the form's current identifier
\* holds the current form, photo list in order and pXRF rows and summary.
\* Deleting the current draft from the modal is not one of these operations:
\* the claim is about records whose last completed call was a save.
C4_LatestSnapshotPersisted ==
    (~WritePending /\ CurrentSaved)
        => /\ key(form.sampleId) \in DOMAIN store
           /\ store[key(form.sampleId)].form = form
           /\ store[key(form.sampleId)].photos = photos
           /\ store[key(form.sampleId)].pxrf = pxrf

\* C4 witness: two photos were added and the second was set as primary; every
\* save has completed and the stored record has them in the new order.
C4_Witness ==
    /\ ~WritePending /\ CurrentSaved
    /\ Len(photos) = 2 /\ photos[1].file = 2
    /\ store[key(form.sampleId)].photos = photos

\* activeIdx holds null (no setter is ever given null: it is a number)
ActiveIdxIsNull == activeIdx \notin Int

\* C6 (as stated): the active index is null or a valid position of the photo
\* list, 0 <= active < length.
C6_ActiveNullOrInBounds ==
    ActiveIdxIsNull \/ (0 <= activeIdx /\ activeIdx < Len(photos))

\* C6 (amended): the active index is never null; it is a valid position of
\* the photo list when the list is not empty, and 0 when the list is empty.
C6_ActiveInBoundsOrZero ==
    /\ ~ActiveIdxIsNull
    /\ IF Len(photos) = 0 THEN activeIdx = 0
       ELSE 0 <= activeIdx /\ activeIdx < Len(photos)

\* C6 witness: of a selection of two photos the second was made active and
\* deleted; the first is left and active.
C6_Witness ==
    /\ nSel = 1 /\ selections = <<>>
    /\ \E k \in DOMAIN store : Len(store[k].photos) = 2
    /\ photos = <<[sel |-> 1, file |-> 1]>>
    /\ activeIdx = 0

\* C7 (as stated): when the reads of a selection are done its photos are
\* appended in file order after every photo in the list, and no photo of a
\* later selection is in the list before them.
C7_AppendedInSelectionOrder ==
    [][\A sel \in DOMAIN selections :
          (sel \notin DOMAIN selections')
              => /\ photos' = photos \o DataUrls(sel)
                 /\ \A i \in 1..Len(photos) : photos[i].sel < sel]_vars

\* q is the list p without its position i (0-based), the rest in order
IsWithout(q, p, i) ==
    /\ Len(q) = Len(p) - 1
    /\ \A j \in 1..Len(q) : q[j] = IF j <= i THEN p[j] ELSE p[j + 1]

\* C21: set-as-primary moves the active photo to index 0, keeps every other
\* photo in its relative order and makes index 0 active; delete-photo removes
\* exactly the photo at the active index, keeps the others in their relative
\* order and sets the active index to max(0, old index - 1).  (With the first
\* photo active, set-as-primary returns the list as it is: not a step.)
C21_PhotoHandlersAsStated ==
    [][/\ SetPrimary => /\ photos'[1] = photos[activeIdx + 1]
                        /\ IsWithout(Tail(photos'), photos, activeIdx)
                        /\ activeIdx' = 0
       /\ DeletePhoto => /\ IsWithout(photos', photos, activeIdx)
                         /\ activeIdx' = Max(0, activeIdx - 1)]_vars

\* the first photo of a two-file selection has been deleted
C21_DeletedFirst ==
    /\ Len(photos) = 1
    /\ photos[1].file = 2

\* the second photo of a two-file selection has been made primary
C21_MadePrimary ==
    /\ photos = <<[sel |-> 1, file |-> 2], [sel |-> 1, file |-> 1]>>
    /\ activeIdx = 0

C21_Witness == C21_DeletedFirst \/ C21_MadePrimary

\* C22: changing the form's identifier from A to B leaves the record stored
\* under A, with the content of the last save under A, and creates a record
\* under B: every identifier whose last completed call was a save still has
\* the record that save wrote, whatever the form's identifier is now, and once
\* no write is pending the current identifier has a record unless the user
\* deleted it from the Saved list.
C22_OldIdentifierRecordKept ==
    /\ \A c \in DOMAIN lastDone :
           (c[1] = "sample" /\ lastDone[c].op = "set")
               => /\ key(c[2]) \in DOMAIN store
                  /\ store[key(c[2])] = lastDone[c].arg
    /\ (~WritePending /\ CurrentSaved) => key(form.sampleId) \in DOMAIN store

\* the identifier was changed from the default to "a" and both are stored,
\* the default's record as it was saved
C22_Witness ==
    /\ form.sampleId = <<"a">>
    /\ key(<<"a">>) \in DOMAIN store
    /\ key(generateSampleId) \in DOMAIN store
    /\ store[key(generateSampleId)].form.sampleId = generateSampleId

\* the writes waiting in the tab's queue leave every stored record as it is
QueuedWritesKeep(st, q) ==
    \A i \in 1..Len(q) :
        /\ q[i].op = "set" => (q[i].key \in DOMAIN st => st[q[i].key] = q[i].val)
        /\ q[i].op = "del" => q[i].key \notin DOMAIN st

\* C28: pressing New Sample changes or destroys no stored record: the
\* autosave it queues writes over no record of the store with other content,
\* a record saved earlier under the default identifier included.
C28_NewSampleKeepsRecords ==
    [][resetForm => QueuedWritesKeep(store, queue'["this"])]_vars

\* the last store call completed for the sample identifier id was a delete
DeleteCompleted(id) ==
    /\ <<"sample", id>> \in DOMAIN lastDone
    /\ lastDone[<<"sample", id>>].op = "del"

\* C29: deleting a saved draft is durable while the form still shows it:
\* once the delete of the form's identifier has completed, no step while the
\* form keeps that identifier writes a record under it again.
C29_DeletedDraftStaysDeleted ==
    [][(DeleteCompleted(form.sampleId) /\ form'.sampleId = form.sampleId)
           => key(form.sampleId) \notin DOMAIN store']_vars

\* C30: New Sample isolates the new sample from the previous one: a file
\* read or a CSV read that was started before New Sample and completes after
\* it leaves the photo list and the pXRF data as they are.
C30_NewSampleIsolated ==
    [][/\ \A sel \in stale.sels : sel \notin DOMAIN selections' => photos' = photos
       /\ \A rows \in stale.csvs : rows \notin csvReading' => pxrf' = pxrf]_vars

(***************************************************************************)
(* Claims about the downscaler                                             *)
(***************************************************************************)
\* C8: for an image whose longer edge exceeds 1024 the canvas has a longer
\* edge of exactly 1024 and a shorter edge within one pixel of
\* shorter * 1024 / longer; no canvas edge is larger than the image's.
C8_DownscaleBounds ==
    canvas.drawn =>
        LET longer == Max(image.width, image.height)
            shorter == Min(image.width, image.height)
            outShort == IF image.width >= image.height THEN canvas.height ELSE canvas.width
            outLong == IF image.width >= image.height THEN canvas.width ELSE canvas.height
        IN  /\ canvas.width <= image.width
            /\ canvas.height <= image.height
            /\ longer > 1024 =>
                  /\ outLong = 1024
                  /\ Abs(outShort * longer - shorter * 1024) <= longer

\* C8 witness: a portrait image taller than 1024 was drawn 1024 high and its
\* width was rounded up from an exact half.
C8_Witness ==
    /\ canvas.drawn
    /\ image.height = 2048 /\ image.width = 1
    /\ canvas.height = 1024 /\ canvas.width = 1

(***************************************************************************)
(* Claims about the colour summarizer                                      *)
(***************************************************************************)
\* C9 (as stated): for every averaged pixel with saturation below 0.12 the
\* name is "white" when value > 0.8 and "grey" when value <= 0.8.
C9_LowSaturationWhiteOrGrey ==
    LET hsv == rgbToHsv(avgRGB.r, avgRGB.g, avgRGB.b)
    IN  (colourName # "" /\ SatBelow(hsv))
            => colourName = (IF ValBright(hsv) THEN "white" ELSE "grey")

\* C9 (amended): for every averaged pixel with saturation below 0.12 the name
\* is "very dark / black" when value < 0.18, "grey" when 0.18 <= value <= 0.8
\* and "white" when value > 0.8.
C9_LowSaturationByValue ==
    LET hsv == rgbToHsv(avgRGB.r, avgRGB.g, avgRGB.b)
    IN  (colourName # "" /\ SatBelow(hsv))
            => colourName = (IF 100 * hsv.vNum < 18 * 255 THEN "very dark / black"
                             ELSE IF 10 * hsv.vNum > 8 * 255 THEN "white"
                             ELSE "grey")

\* C9 witness: a slightly tinted pixel of value exactly 0.8 was named grey.
C9_Witness ==
    /\ avgRGB = [r |-> 204, g |-> 198, b |-> 198]
    /\ colourName = "grey"

\* the name the table gives to the hue alone: that of the pixel with the same
\* hue, full saturation and full value
HueBand(hsv) == hsvToRockColourName([hsv EXCEPT !.sNum = 1, !.sDen = 1, !.vNum = 255])

\* C25: the ironish flag is true exactly when the averaged colour's hue lies
\* in the band the table names "red" or "orange / ochre" and its saturation
\* is above 0.3; it is false for every hue the table names yellow, green,
\* blue, purple or brown.
C25_IronishIsRedOrOrange ==
    LET hsv == Rounded(rgbToHsv(avgRGB.r, avgRGB.g, avgRGB.b), hueUlp)
    IN  colourName # ""
            => (ironish <=> (HueBand(hsv) \in {"red", "orange / ochre"} /\ SatAbove(hsv)))

(***************************************************************************)
(* Claims about the pXRF statistics                                        *)
(***************************************************************************)
\* the cell of column col holds a number: it is there, not empty, and its
\* text as it stands is a decimal literal
NumericCell(row, col) ==
    /\ col \in DOMAIN row
    /\ row[col] # <<>>
    /\ ~Number(row[col]).nan

\* the rows whose cell for element e holds a number
NumericRows(e) == {i \in 1..Len(csvRows) : NumericCell(csvRows[i], e)}

\* C10 (as stated): a cell that is missing, empty or not a parseable number
\* is excluded from its element's statistics: n counts no such cell, and no
\* such cell enters as the value 0, whatever its text.
C10_UnparseableExcluded ==
    csvStats # <<>> =>
        \A e \in elems :
            IF csvStats[e] = null THEN TRUE
            ELSE /\ csvStats[e].n <= Cardinality(NumericRows(e))
                 /\ csvStats[e].min = 0 =>
                        \E i \in NumericRows(e) : Number(csvRows[i][e]).val = 0

\* the rows that hold a number for element e in one of its four columns
NumericRowsAnyColumn(e) ==
    {i \in 1..Len(csvRows) : \E sfx \in Suffixes : NumericCell(csvRows[i], e \o sfx)}

\* C11 (as stated): every row with a numeric value in a column named E, E%,
\* E_ppm or E_wt% is included in E's statistics; a file with only a suffixed
\* column for E gives E a summary.
C11_SuffixedColumnsIncluded ==
    csvStats # <<>> =>
        \A e \in elems :
            NumericRowsAnyColumn(e) # {} =>
                /\ csvStats[e] # null
                /\ csvStats[e].n >= Cardinality(NumericRowsAnyColumn(e))

\* C12 (as stated): for every element, n is the number of rows holding a
\* numeric value in the element's column, min and max are the smallest and
\* largest of those values and mean is their sum over n; an element with no
\* numeric value has no summary.
C12_StatsOfNumericRows ==
    csvStats # <<>> =>
        \A e \in elems :
            LET vals == {Number(csvRows[i][e]).val : i \in NumericRows(e)}
                total == SumSeq([k \in 1..Len(csvRows) |->
                                   IF k \in NumericRows(e)
                                   THEN Number(csvRows[k][e]).val ELSE 0])
            IN  IF NumericRows(e) = {} THEN csvStats[e] = null
                ELSE /\ csvStats[e] # null
                     /\ csvStats[e].n = Cardinality(NumericRows(e))
                     /\ csvStats[e].min \in vals /\ \A v \in vals : csvStats[e].min <= v
                     /\ csvStats[e].max \in vals /\ \A v \in vals : csvStats[e].max >= v
                     /\ csvStats[e].mean = [sum |-> total, n |-> Cardinality(NumericRows(e))]

\* the numeric values of element e's column, in ascending order
SortedValues(e) ==
    SortSeq(byEl(SelectSeq(csvRows, LAMBDA row : NumericCell(row, e)), e),
            LAMBDA a, b : a < b)

\* C26: for every element with at least one numeric value, the summary's
\* median is the median of those values: the middle value for an odd count
\* and the average of the two middle values for an even count, so
\* min <= median <= max.  (Stated for the elements whose summary counts the
\* numeric values only.)
C26_MedianOfValues ==
    csvStats # <<>> =>
        \A e \in elems :
            LET sorted == SortedValues(e)
                n == Len(sorted)
            IN  (n > 0 /\ csvStats[e] # null /\ csvStats[e].n = n)
                    => /\ IF n % 2 = 1
                          THEN csvStats[e].median = sorted[(n + 1) \div 2]
                          ELSE 2 * csvStats[e].median = sorted[n \div 2] + sorted[(n \div 2) + 1]
                       /\ csvStats[e].min <= csvStats[e].median
                       /\ csvStats[e].median <= csvStats[e].max

(***************************************************************************)
(* Claims about the borehole CSV export                                    *)
(***************************************************************************)
\* a cell emitted per standard CSV quoting where the cell has a comma or a
\* double-quote, as it is otherwise
StandardCell(c) ==
    IF Includes(c, ",") \/ Includes(c, "\"")
    THEN <<"\"">> \o ReplaceAll(c, "\"", <<"\"", "\"">>) \o <<"\"">>
    ELSE c

\* C13 (as stated): in the exported text every field that contains a comma
\* or a double-quote is wrapped in double quotes with each embedded
\* double-quote doubled, also a field with a double-quote and no comma.
C13_CommaOrQuoteFieldsQuoted ==
    csvBlob # <<>> =>
        LET rows == <<CsvHeader>>
                    \o [i \in 1..Len(borehole.intervals) |-> IntervalRow(borehole.intervals[i])]
        IN  csvBlob = Join([i \in 1..Len(rows) |->
                               Join([k \in 1..Len(rows[i]) |-> StandardCell(rows[i][k])], <<",">>)],
                           <<"\n">>)

\* the field names of an interval, in column order
IntervalFields == <<"from", "to", "unit", "description", "notes">>

\* every field of every interval is made of letters, commas and double-quotes
CommasAndQuotesOnly ==
    \A i \in 1..Len(borehole.intervals) :
        \A f \in DOMAIN borehole.intervals[i] :
            \A p \in 1..Len(borehole.intervals[i][f]) :
                borehole.intervals[i][f][p] \in {"a", "1", "2", ",", "\""}

\* C14 (as stated): for an interval list whose fields hold commas and
\* double-quotes, parsing the exported text gives one row per interval, in
\* order, with every field value equal to the original.
C14_ExportParseRoundTrip ==
    (reparsed.done /\ CommasAndQuotesOnly) =>
        /\ Len(reparsed.rows) = Len(borehole.intervals)
        /\ \A i \in 1..Len(borehole.intervals) :
              \A k \in 1..Len(IntervalFields) :
                  /\ CsvHeader[k] \in DOMAIN reparsed.rows[i]
                  /\ reparsed.rows[i][CsvHeader[k]]
                         = FieldOrEmpty(borehole.intervals[i], IntervalFields[k])

(***************************************************************************)
(* Claims about the document generators                                    *)
(***************************************************************************)
\* the form field each labelled piece of the Markdown document renders
FieldOfLabel ==
    [l \in {"Project"} |-> "project"] @@ [l \in {"Sample ID"} |-> "sampleId"]
    @@ [l \in {"Date"} |-> "date"] @@ [l \in {"Location lat"} |-> "lat"]
    @@ [l \in {"Location lon"} |-> "lon"] @@ [l \in {"Location elev"} |-> "elevation"]
    @@ [l \in {"Host unit"} |-> "hostUnit"] @@ [l \in {"Colour fresh"} |-> "colourFresh"]
    @@ [l \in {"Colour weathered"} |-> "colourWeathered"]
    @@ [l \in {"Grain size"} |-> "grainSize"] @@ [l \in {"Hardness"} |-> "hardness"]
    @@ [l \in {"Streak"} |-> "streak"] @@ [l \in {"SG"} |-> "sg"]
    @@ [l \in {"Minerals"} |-> "minerals"] @@ [l \in {"Alteration"} |-> "alteration"]
    @@ [l \in {"Sulfides"} |-> "sulfides"]
    @@ [l \in {"Mineralization notes"} |-> "mineralizationNotes"]
    @@ [l \in {"Structures"} |-> "structures"] @@ [l \in {"Length"} |-> "sampleLength_m"]
    @@ [l \in {"pXRF"} |-> "pxrf"] @@ [l \in {"Notes"} |-> "notes"]

\* C15 (as stated): in the Markdown document every form field whose value is
\* empty (empty string or empty list) is rendered as the dash placeholder,
\* never as blank text, and the pXRF statistics line is there exactly when
\* some element has a summary.
C15_EmptyFieldsDashed ==
    markdown # <<>> =>
        /\ \A i \in 1..Len(markdown) :
              (/\ markdown[i].label \in DOMAIN FieldOfLabel
               /\ docForm[FieldOfLabel[markdown[i].label]]
                      = EmptyOf(FieldOfLabel[markdown[i].label]))
                  => markdown[i].text = dash
        /\ (\E i \in 1..Len(markdown) : markdown[i].label = "pXRF summary")
               <=> (\E e \in DOMAIN docPxrf : docPxrf[e] # null)

GossanCategory == <<"G", "o", "s", "s", "a", "n", " ", "/", " ", "I", "r", "o", "n", "-", "o", "x", "i", "d", "e">>

\* C16: the quick draft holds the interpretive sentence exactly when the
\* photo summary's iron-oxide flag is true and the category is the one that
\* names gossan / iron; with no photo summary the sentence is absent.
C16_InterpretiveSentenceIff ==
    quickDraft # <<>> =>
        ((\E i \in 1..Len(quickDraft) : quickDraft[i] = InterpretiveSentence)
            <=> (/\ docPhoto.summary # null
                 /\ docPhoto.summary.ironish
                 /\ docForm.category = GossanCategory))

\* C16 witness: a draft for a gossan sample whose photo was flagged holds the
\* sentence, after the sentences about the form.
C16_Witness ==
    /\ docPhoto.summary # null /\ docPhoto.summary.ironish
    /\ docForm.category = GossanCategory
    /\ Len(quickDraft) > 1
    /\ quickDraft[Len(quickDraft)] = InterpretiveSentence

(***************************************************************************)
(* Claims about the description request                                    *)
(***************************************************************************)
\* C17 (as stated): when a description request has failed (network error,
\* non-success status or client-side timeout) a non-empty error message is
\* shown, the narrative text is what it was before, and the form, the photo
\* list and the pXRF data are unchanged.
C17_FailureShowsErrorKeepsText ==
    lastReply.kind = "failed" =>
        /\ aiError # ""
        /\ suggested = lastReply.prior
        /\ form = makeDefaultForm /\ photos = <<>> /\ pxrf = [rows |-> <<>>, summary |-> <<>>]

\* C18 (as stated): when the backend has answered the request the Generate
\* button started with a success status and a body {description: d}, the
\* narrative text shown is d.
C18_SuccessShowsDescription ==
    (/\ lastReply.kind = "success"
     /\ "description" \in DOMAIN lastReply.reply.data)
        => suggested = lastReply.reply.data.description


\* C24: every description request terminates on the client: after the
\* request starts, the busy flag eventually returns to false, however the
\* backend behaves (never answers, answers headers and then stalls the body,
\* or fails).
C24_RequestTerminates == aiBusy ~> ~aiBusy

(***************************************************************************)
(* Claims about the backend                                                *)
(***************************************************************************)
\* the message names the key
NamesKey(error) == \E i \in 1..Len(error) : error[i] = Lit("OPENAI_API_KEY")

\* C19: when OPENAI_API_KEY is not set, every POST to /api/describe, whatever
\* its body, is answered with status 500 and a message that names the missing
\* key, and no request has been sent to the provider.
C19_MissingKeyAnswers500 ==
    (/\ answered.kind = "answer"
     /\ answered.method = "POST"
     /\ OPENAI_API_KEY = "")
        => /\ answered.status = 500
           /\ NamesKey(answered.error)
           /\ ~answered.called

ContainsStatus(error, s) == \E i \in 1..Len(error) : error[i] = Lit(ToString(s))

ContainsBody(error, b) == b.len = 0 \/ \E i \in 1..Len(error) : error[i] = BodyText(b)

\* C20: when the provider answers with a non-success status s and body b, the
\* backend answers its caller with status 500 and a message that contains
\* both s and b.
C20_UpstreamFailureAnswers500 ==
    (/\ answered.kind = "answer"
     /\ answered.called
     /\ ~Unreachable(answered.upstream)
     /\ ~ok(answered.upstream))
        => /\ answered.status = 500
           /\ ContainsStatus(answered.error, answered.upstream.status)
           /\ ContainsBody(answered.error, answered.upstream.body)

\* the call that got the reply r failed: the provider was not reached, or
\* answered a non-success status or a body that is not JSON
Failed(r) == Unreachable(r) \/ ~ok(r) \/ ~r.json

\* C27: the model fallback of part_002 is sequential and stops at the first
\* success: the candidates are called one at a time in list order, a success
\* answers 200 with that model's description and no later candidate is
\* called, an error is answered only after the last candidate has failed,
\* and one response is sent per request, when the loop has ended.
C27_FallbackSequential ==
    server = "part_002:4" =>
        /\ inFlight.waiting =>
              /\ answered.kind = "none"
              /\ inFlight.i = Len(inFlight.calls) + 1
              /\ inFlight.i <= Len(modelList)
              /\ \A k \in 1..Len(inFlight.calls) :
                     inFlight.calls[k].i = k /\ Failed(inFlight.calls[k].reply)
        /\ (answered.kind = "answer" /\ answered.called) =>
              LET c == answered.calls
                  n == Len(c)
              IN  /\ n >= 1
                  /\ \A k \in 1..n : c[k].i = k
                  /\ \A k \in 1..(n - 1) : Failed(c[k].reply)
                  /\ IF Failed(c[n].reply)
                     THEN answered.status # 200 /\ n = Len(modelList)
                     ELSE answered.status = 200 /\ answered.description = c[n].reply.content

\* the first candidate failed and the second one's description was answered
C27_Witness ==
    /\ server = "part_002:4"
    /\ answered.status = 200
    /\ Len(answered.calls) = 2
    /\ answered.calls[1].reply.status = 429
    /\ answered.description = "d"

(***************************************************************************)
(* Claims about the file upload                                            *)
(***************************************************************************)
\* selection sel holds a file that does not decode
HasUndecodable(sel) ==
    \E i \in DOMAIN uploads[sel].files : ~uploads[sel].files[i].decodable

\* no photo of a selection with a file that does not decode is in the list
NoPhotoOfUndecodable ==
    \A sel \in DOMAIN uploads :
        HasUndecodable(sel) =>
            /\ ~uploads[sel].appended
            /\ \A k \in DOMAIN upPhotos : upPhotos[k][1] # sel

\* a file that does not decode and is being decoded stays so in every step
StaysPending ==
    \A sel \in DOMAIN uploads :
        \A i \in DOMAIN uploads[sel].files :
            (uploads[sel].files[i].stage = "decoding" /\ ~uploads[sel].files[i].decodable)
                => uploads'[sel].files[i] = uploads[sel].files[i]

\* C23: if an image of a file selection cannot be decoded, its downscale
\* operation stays pending forever: no photo of that selection is ever
\* appended to the photo list, and nothing (no error, no timeout) ends the
\* wait.
C23_UndecodablePendsForever == []NoPhotoOfUndecodable /\ [][StaysPending]_vars

\* the first selection waits on a file that does not decode, with its other
\* file done, while the photo of a later selection has been appended
C23_Witness ==
    /\ Len(uploads) = 2
    /\ Len(uploads[1].files) = 2
    /\ uploads[1].files[1].stage = "done"
    /\ uploads[1].files[2].stage = "decoding"
    /\ ~uploads[1].files[2].decodable
    /\ upPhotos = <<<<2, 1>>>>

=============================================================================
